---- MODULE Spec2Model ----
(***************************************************************************)
(* Capability matrix / graceful degradation subsystem of golem-search:    *)
(* CapabilityChecker.check_query_support (capabilities.rs) and            *)
(* FallbackProcessor.process_search_results (fallbacks.rs).               *)
(*                                                                         *)
(* Conventions.                                                            *)
(*   Option<T>   : <<>> is None, <<v>> is Some(v).                         *)
(*   String      : a sequence of characters, each character a one-letter  *)
(*                 TLA+ string; byte lengths come from Utf8Len, so that    *)
(*                 str::len() and byte slicing are those of Rust.          *)
(*   identifiers : feature names, JSON object keys and enum variants are  *)
(*                 TLA+ strings (they are only compared for equality).     *)
(*   JSON text   : a JSON document held in a String is the record         *)
(*                 [valid, doc]; serde_json::from_str fails on valid =     *)
(*                 FALSE and yields doc otherwise; doc is a tagged value   *)
(*                 <<tag, payload>> with tag in Null, Bool, Number,        *)
(*                 String, Array, Object.                                  *)
(*   logging     : warn!/debug! calls have no effect on the state and are  *)
(*                 left out.                                               *)
(***************************************************************************)
EXTENDS Integers, Sequences, FiniteSets, TLC

VARIABLES
    matrix,              \* CapabilityChecker.matrix
    strategy,            \* CapabilityChecker.strategy / FallbackProcessor.strategy
    query,               \* the SearchQuery of the request
    supported_features,  \* the feature map handed to process_search_results
    results,             \* the SearchResults mutated in place
    results_before,      \* results at the entry of the last call
    support,             \* Option<QuerySupportResult> of the last check
    ret,                 \* outcome of the last call: "none", "Ok", "Unsupported", "Internal", "Panic"
    trace,               \* the private steps the last call entered, in order
    facets_out,          \* Option<map> returned by compute_client_side_facets
    calls,               \* number of calls made so far
    args,                \* the function called on its own and its arguments
    output,              \* Option of the value that call returned
    retry,               \* one run of retry_with_backoff: its config, locals and history
    stream,              \* a SearchHitStream, its channel and its producer
    limiter              \* a RateLimiter, the clock and the threads calling try_acquire

vars == <<matrix, strategy, query, supported_features, results, results_before,
          support, ret, trace, facets_out, calls, args, output, retry, stream, limiter>>

(***************************************************************************)
(* Bounds of the model                                                     *)
(***************************************************************************)
MaxPerPage == 3       \* per_page ranges over 1..MaxPerPage
MaxFilters == 2       \* a query has at most MaxFilters filters
MaxHits == 1          \* a result set handed to process_search_results has at most MaxHits hits
MaxCalls == 1         \* process_search_results is called at most MaxCalls times on a result set
MaxAttempts == 3      \* RetryConfig.max_attempts ranges over 0..MaxAttempts
MaxBatches == 3       \* next_batch is called at most MaxBatches times
MaxBatchSize == 2     \* next_batch is called with size in 0..MaxBatchSize
MaxPageHits == 2      \* fetch_page answers with at most MaxPageHits hits
MaxFetches == 3       \* fetch_page is called at most MaxFetches times
MaxItems == 3         \* the holder of a Sender sends at most MaxItems items
MaxThreads == 2       \* threads calling try_acquire on one RateLimiter
MaxAcquires == 2      \* try_acquire is called at most MaxAcquires times in all
MaxTicks == 2         \* the clock advances at most MaxTicks times
TicksPerSecond == 2   \* Instant values are counted in ticks of 1/TicksPerSecond s
MaxRepeats == 3       \* in SpecRepeat the same call is made at most MaxRepeats times
MaxTerms == 4         \* highlight_text is given at most MaxTerms search terms
MaxPages == 2         \* max_pages ranges over 0..MaxPages; at most MaxPages pages are combined
MaxPageSize == 2      \* page_size ranges over 1..MaxPageSize
MaxFeatures == 3      \* at most MaxFeatures unsupported features are listed
MaxFacetHits == 2     \* compute_client_side_facets is given at most MaxFacetHits hits

(***************************************************************************)
(* Option                                                                  *)
(***************************************************************************)
None == <<>>
Some(v) == <<v>>
IsSome(o) == o /= <<>>
IsNone(o) == o = <<>>
Unwrap(o) == o[1]
OptionOf(S) == {None} \cup {Some(v) : v \in S}

(***************************************************************************)
(* Characters and strings                                                  *)
(***************************************************************************)
AsciiLower == <<"a","b","c","d","e","f","g","h","i","j","k","l","m",
                "n","o","p","q","r","s","t","u","v","w","x","y","z">>
AsciiUpper == <<"A","B","C","D","E","F","G","H","I","J","K","L","M",
                "N","O","P","Q","R","S","T","U","V","W","X","Y","Z">>
AsciiDigit == <<"0","1","2","3","4","5","6","7","8","9">>

Range(s) == {s[i] : i \in DOMAIN s}
IndexIn(s, c) == CHOOSE i \in DOMAIN s : s[i] = c
\* HashMap::insert
InsertEntry(m, key, val) == [k \in DOMAIN m \cup {key} |-> IF k = key THEN val ELSE m[k]]

\* the Unicode scalar values of the characters of the model's alphabet
CodePoints ==
    [c \in Range(AsciiLower) \cup Range(AsciiUpper) \cup Range(AsciiDigit)
           \cup {" ", "!", "\"", ",", "-", "/", "<", ">", "[", "\\", "]", "É", "é"} |->
        IF c \in Range(AsciiLower) THEN 96 + IndexIn(AsciiLower, c)
        ELSE IF c \in Range(AsciiUpper) THEN 64 + IndexIn(AsciiUpper, c)
        ELSE IF c \in Range(AsciiDigit) THEN 47 + IndexIn(AsciiDigit, c)
        ELSE CASE c = " " -> 32 [] c = "!" -> 33 [] c = "\"" -> 34 [] c = "," -> 44
               [] c = "-" -> 45 [] c = "/" -> 47 [] c = "<" -> 60 [] c = ">" -> 62
               [] c = "[" -> 91 [] c = "\\" -> 92 [] c = "]" -> 93
               [] c = "É" -> 201 [] c = "é" -> 233]

\* Unicode scalar value of a character
CodePoint(c) == CodePoints[c]

\* number of bytes of the UTF-8 encoding of a character
Utf8Len(c) == IF CodePoint(c) < 128 THEN 1 ELSE IF CodePoint(c) < 2048 THEN 2 ELSE 3

\* char::to_lowercase
ToLowerChar(c) ==
    IF CodePoint(c) \in 65..90 THEN AsciiLower[CodePoint(c) - 64]
    ELSE IF c = "É" THEN "é" ELSE c

IsAlphabetic(c) == CodePoint(c) \in (65..90) \cup (97..122) \cup {201, 233}
\* char::is_alphanumeric
IsAlphanumeric(c) == IsAlphabetic(c) \/ CodePoint(c) \in 48..57
\* char::is_whitespace
IsWhitespace(c) == c = " "
\* a word character of the regex crate (\w, Unicode aware)
IsWordChar(c) == IsAlphanumeric(c)

\* str::to_lowercase
ToLowercase(s) == [i \in DOMAIN s |-> ToLowerChar(s[i])]

\* str::len(): the length in bytes
ByteLen(s) ==
    LET upto[i \in 0..Len(s)] == IF i = 0 THEN 0 ELSE upto[i - 1] + Utf8Len(s[i])
    IN upto[Len(s)]

\* chars().count()
CharLen(s) == Len(s)

RECURSIVE DecimalString(_)
\* u32::to_string / usize::to_string
DecimalString(n) ==
    IF n < 10 THEN <<AsciiDigit[n + 1]>>
    ELSE DecimalString(n \div 10) \o <<AsciiDigit[(n % 10) + 1]>>

\* the order of str (byte-wise lexicographic = by code point): decided at
\* the first position where the two differ, a proper prefix being smaller
StrLess(a, b) ==
    LET n == IF Len(a) < Len(b) THEN Len(a) ELSE Len(b)
        less[i \in 1..(n + 1)] ==
            IF i > n THEN Len(a) < Len(b)
            ELSE IF a[i] /= b[i] THEN CodePoint(a[i]) < CodePoint(b[i])
            ELSE less[i + 1]
    IN less[1]

(***************************************************************************)
(* Enumerations of capabilities.rs                                         *)
(***************************************************************************)
FeatureSupport == {"Native", "Limited", "Unsupported", "Conditional", "Emulated"}
FacetFallback == {"Empty", "ClientSide", "SeparateQueries", "Error"}
HighlightFallback == {"None", "ClientSide", "Error"}

\* format!("{:?}", facet_fallback): the derived Debug form of the variant
FacetFallbackDebug(f) ==
    CASE f = "Empty" -> "Empty" [] f = "ClientSide" -> "ClientSide"
      [] f = "SeparateQueries" -> "SeparateQueries" [] f = "Error" -> "Error"

\* format!("{:?}", highlight_fallback)
HighlightFallbackDebug(h) ==
    CASE h = "None" -> "None" [] h = "ClientSide" -> "ClientSide" [] h = "Error" -> "Error"

is_available(s) == s \in {"Native", "Limited", "Conditional", "Emulated"}
is_native(s) == s = "Native"
\* needs_fallback as the set of levels that trigger a fallback in process_search_results
needs_fallback_Triggering(s) == s \in {"Unsupported", "Emulated"}

needs_fallback(s) == s \in {"Limited", "Emulated"}

DefaultStrategy ==
    [facet_fallback |-> "ClientSide", highlight_fallback |-> "ClientSide",
     streaming_fallback |-> "Pagination", vector_search_fallback |-> "TextSearch",
     geo_search_fallback |-> "BoundingBox",
     log_unsupported_warnings |-> TRUE, strict_mode |-> FALSE]

elasticsearch_capability_matrix ==
    [provider_name |-> "elasticsearch",
     provider_version |-> None,
     core_capabilities |->
        [full_text_search |-> "Native", keyword_search |-> "Native",
         index_management |-> "Native", document_operations |-> "Native",
         schema_management |-> "Native", filtering |-> "Native",
         pagination |-> "Native"],
     advanced_features |->
        [faceted_search |-> "Native", highlighting |-> "Native",
         vector_search |-> "Conditional", geo_search |-> "Native",
         streaming_search |-> "Native", autocomplete |-> "Native",
         typo_tolerance |-> "Limited", custom_ranking |-> "Native",
         multilingual |-> "Native", batch_operations |-> "Native"],
     performance_limits |->
        [max_batch_size |-> Some(1000), max_query_length |-> Some(32768),
         max_facets |-> Some(100), max_filters |-> Some(256),
         max_results_per_page |-> Some(10000),
         default_timeout_seconds |-> Some(30), rate_limit_rps |-> None],
     provider_specific |->
        [k \in {"scroll_api", "percolator", "machine_learning", "security"} |->
            IF k \in {"scroll_api", "percolator"} THEN "Native" ELSE "Conditional"]]

\* the OpenSearch matrix without its two provider-specific entries
opensearch_capability_matrix_NoneAdded ==
    [elasticsearch_capability_matrix EXCEPT
        !.provider_name = "opensearch",
        !.advanced_features.vector_search = "Native"]

opensearch_capability_matrix ==
    LET matrix1 == [elasticsearch_capability_matrix EXCEPT
                       !.provider_name = "opensearch",
                       !.advanced_features.vector_search = "Native"]
        matrix2 == [matrix1 EXCEPT !.provider_specific =
                       InsertEntry(matrix1.provider_specific, "neural_search", "Native")]
    IN [matrix2 EXCEPT !.provider_specific =
           InsertEntry(matrix2.provider_specific, "anomaly_detection", "Native")]

typesense_capability_matrix ==
    [provider_name |-> "typesense",
     provider_version |-> None,
     core_capabilities |->
        [full_text_search |-> "Native", keyword_search |-> "Native",
         index_management |-> "Native", document_operations |-> "Native",
         schema_management |-> "Native", filtering |-> "Native",
         pagination |-> "Native"],
     advanced_features |->
        [faceted_search |-> "Native", highlighting |-> "Native",
         vector_search |-> "Native", geo_search |-> "Native",
         streaming_search |-> "Unsupported", autocomplete |-> "Native",
         typo_tolerance |-> "Native", custom_ranking |-> "Native",
         multilingual |-> "Limited", batch_operations |-> "Limited"],
     performance_limits |->
        [max_batch_size |-> Some(100), max_query_length |-> Some(2048),
         max_facets |-> Some(50), max_filters |-> Some(100),
         max_results_per_page |-> Some(250),
         default_timeout_seconds |-> Some(30), rate_limit_rps |-> None],
     provider_specific |->
        [k \in {"instant_search", "collection_aliases", "curation"} |-> "Native"]]

meilisearch_capability_matrix ==
    [provider_name |-> "meilisearch",
     provider_version |-> None,
     core_capabilities |->
        [full_text_search |-> "Native", keyword_search |-> "Native",
         index_management |-> "Native", document_operations |-> "Native",
         schema_management |-> "Native", filtering |-> "Native",
         pagination |-> "Native"],
     advanced_features |->
        [faceted_search |-> "Native", highlighting |-> "Native",
         vector_search |-> "Limited", geo_search |-> "Native",
         streaming_search |-> "Unsupported", autocomplete |-> "Native",
         typo_tolerance |-> "Native", custom_ranking |-> "Native",
         multilingual |-> "Native", batch_operations |-> "Native"],
     performance_limits |->
        [max_batch_size |-> Some(1000), max_query_length |-> Some(4096),
         max_facets |-> Some(100), max_filters |-> Some(200),
         max_results_per_page |-> Some(1000),
         default_timeout_seconds |-> Some(30), rate_limit_rps |-> None],
     provider_specific |->
        [k \in {"stop_words", "synonyms", "ranking_rules", "distinct"} |-> "Native"]]

algolia_capability_matrix ==
    [provider_name |-> "algolia",
     provider_version |-> None,
     core_capabilities |->
        [full_text_search |-> "Native", keyword_search |-> "Native",
         index_management |-> "Native", document_operations |-> "Native",
         schema_management |-> "Native", filtering |-> "Native",
         pagination |-> "Native"],
     advanced_features |->
        [faceted_search |-> "Native", highlighting |-> "Native",
         vector_search |-> "Limited", geo_search |-> "Native",
         streaming_search |-> "Unsupported", autocomplete |-> "Native",
         typo_tolerance |-> "Native", custom_ranking |-> "Native",
         multilingual |-> "Native", batch_operations |-> "Native"],
     performance_limits |->
        [max_batch_size |-> Some(1000), max_query_length |-> Some(512),
         max_facets |-> Some(100), max_filters |-> Some(100),
         max_results_per_page |-> Some(1000),
         default_timeout_seconds |-> Some(30), rate_limit_rps |-> Some(1000)],
     provider_specific |->
        [k \in {"analytics", "ab_testing", "personalization", "recommend"} |-> "Native"]]

(***************************************************************************)
(* ElasticSearchProviderWithDegradation (degradation.rs)                   *)
(* self = [capability_matrix, degradation_strategy]                        *)
(***************************************************************************)
\* ElasticSearchProviderWithDegradation::new()
NewElasticSearchProvider ==
    [capability_matrix |-> elasticsearch_capability_matrix,
     degradation_strategy |-> DefaultStrategy]

check_vector_search_availability(self) == FALSE

\* the `_` arm answering Unsupported without looking the name up
ProviderSpecific_Unsupported(self, feature) == "Unsupported"

\* the `_` arm of supports_feature: provider_specific.get(feature), or Unsupported
ProviderSpecific(self, feature) ==
    IF feature \in DOMAIN self.capability_matrix.provider_specific
    THEN self.capability_matrix.provider_specific[feature]
    ELSE "Unsupported"

supports_feature(self, feature) ==
    LET core == self.capability_matrix.core_capabilities
        advanced == self.capability_matrix.advanced_features
    IN CASE feature = "full_text_search" -> core.full_text_search
         [] feature = "keyword_search" -> core.keyword_search
         [] feature = "index_management" -> core.index_management
         [] feature = "document_operations" -> core.document_operations
         [] feature = "schema_management" -> core.schema_management
         [] feature = "filtering" -> core.filtering
         [] feature = "pagination" -> core.pagination
         [] feature = "faceted_search" -> advanced.faceted_search
         [] feature = "highlighting" -> advanced.highlighting
         [] feature = "vector_search" ->
                IF check_vector_search_availability(self) THEN "Native" ELSE "Conditional"
         [] feature = "geo_search" -> advanced.geo_search
         [] feature = "streaming_search" -> advanced.streaming_search
         [] feature = "autocomplete" -> advanced.autocomplete
         [] feature = "typo_tolerance" -> advanced.typo_tolerance
         [] feature = "custom_ranking" -> advanced.custom_ranking
         [] feature = "multilingual" -> advanced.multilingual
         [] feature = "batch_operations" -> advanced.batch_operations
         [] OTHER -> ProviderSpecific(self, feature)

\* the feature map built without the highlighting entry
SupportedFeaturesOf_NoHighlighting(self) ==
    [name \in {"faceted_search", "vector_search", "geo_search", "streaming_search"} |->
        self.capability_matrix.advanced_features[name]]

\* the feature map ElasticSearchProviderWithDegradation.process_search_results builds
SupportedFeaturesOf(self) ==
    [name \in {"faceted_search", "highlighting", "vector_search", "geo_search",
               "streaming_search"} |-> self.capability_matrix.advanced_features[name]]

(***************************************************************************)
(* CapabilityChecker.check_query_support                                   *)
(***************************************************************************)
\* the faceting step: zero or one issue, and whether it forces a fallback
FacetCheck(m, st, q) ==
    LET s == m.advanced_features.faceted_search IN
    IF q.facets = <<>> THEN [issues |-> <<>>, fb |-> FALSE]
    ELSE CASE s = "Native" -> [issues |-> <<>>, fb |-> FALSE]
           [] s = "Limited" ->
                [issues |-> <<[kind |-> "LimitedSupport", feature |-> "faceted_search",
                               limitation |-> "May have performance or accuracy limitations"]>>,
                 fb |-> FALSE]
           [] s = "Unsupported" ->
                [issues |-> <<[kind |-> "UnsupportedFeature", feature |-> "faceted_search",
                               fallback |-> FacetFallbackDebug(st.facet_fallback)]>>,
                 fb |-> TRUE]
           [] s = "Emulated" ->
                [issues |-> <<[kind |-> "RequiresFallback", feature |-> "faceted_search",
                               method |-> "Client-side post-processing"]>>,
                 fb |-> TRUE]
           [] s = "Conditional" ->
                [issues |-> <<[kind |-> "ConditionalSupport", feature |-> "faceted_search",
                               condition |-> "Depends on index configuration"]>>,
                 fb |-> FALSE]

\* HighlightCheck reporting the facet policy as the fallback of highlighting
HighlightCheck_FacetPolicy(m, st, q) ==
    LET s == m.advanced_features.highlighting IN
    IF IsNone(q.highlight) THEN [issues |-> <<>>, fb |-> FALSE]
    ELSE CASE s = "Native" -> [issues |-> <<>>, fb |-> FALSE]
           [] s = "Limited" ->
                [issues |-> <<[kind |-> "LimitedSupport", feature |-> "highlighting",
                               limitation |-> "May not support all highlight options"]>>,
                 fb |-> FALSE]
           [] s = "Unsupported" ->
                [issues |-> <<[kind |-> "UnsupportedFeature", feature |-> "highlighting",
                               fallback |-> FacetFallbackDebug(st.facet_fallback)]>>,
                 fb |-> TRUE]
           [] s = "Emulated" ->
                [issues |-> <<[kind |-> "RequiresFallback", feature |-> "highlighting",
                               method |-> "Client-side text processing"]>>,
                 fb |-> TRUE]
           [] s = "Conditional" ->
                [issues |-> <<[kind |-> "ConditionalSupport", feature |-> "highlighting",
                               condition |-> "Depends on field configuration"]>>,
                 fb |-> FALSE]

\* the highlighting step
HighlightCheck(m, st, q) ==
    LET s == m.advanced_features.highlighting IN
    IF IsNone(q.highlight) THEN [issues |-> <<>>, fb |-> FALSE]
    ELSE CASE s = "Native" -> [issues |-> <<>>, fb |-> FALSE]
           [] s = "Limited" ->
                [issues |-> <<[kind |-> "LimitedSupport", feature |-> "highlighting",
                               limitation |-> "May not support all highlight options"]>>,
                 fb |-> FALSE]
           [] s = "Unsupported" ->
                [issues |-> <<[kind |-> "UnsupportedFeature", feature |-> "highlighting",
                               fallback |-> HighlightFallbackDebug(st.highlight_fallback)]>>,
                 fb |-> TRUE]
           [] s = "Emulated" ->
                [issues |-> <<[kind |-> "RequiresFallback", feature |-> "highlighting",
                               method |-> "Client-side text processing"]>>,
                 fb |-> TRUE]
           [] s = "Conditional" ->
                [issues |-> <<[kind |-> "ConditionalSupport", feature |-> "highlighting",
                               condition |-> "Depends on field configuration"]>>,
                 fb |-> FALSE]

PerformanceLimit(parameter, requested, limit) ==
    [kind |-> "PerformanceLimit", parameter |-> parameter,
     requested |-> DecimalString(requested), limit |-> DecimalString(limit)]

\* the per_page step raising an issue at the limit as well
PerPageCheck_AtLimit(m, q) ==
    LET lim == m.performance_limits.max_results_per_page IN
    IF IsSome(q.per_page) /\ IsSome(lim) /\ Unwrap(q.per_page) >= Unwrap(lim)
    THEN <<PerformanceLimit("per_page", Unwrap(q.per_page), Unwrap(lim))>>
    ELSE <<>>

\* the per_page step
PerPageCheck(m, q) ==
    LET lim == m.performance_limits.max_results_per_page IN
    IF IsSome(q.per_page) /\ IsSome(lim) /\ Unwrap(q.per_page) > Unwrap(lim)
    THEN <<PerformanceLimit("per_page", Unwrap(q.per_page), Unwrap(lim))>>
    ELSE <<>>

\* the query length step: str::len() counts bytes
QueryLengthCheck(m, q) ==
    LET lim == m.performance_limits.max_query_length IN
    IF IsSome(q.q) /\ IsSome(lim) /\ ByteLen(Unwrap(q.q)) > Unwrap(lim)
    THEN <<PerformanceLimit("query_length", ByteLen(Unwrap(q.q)), Unwrap(lim))>>
    ELSE <<>>

\* the filter count step
FilterCountCheck(m, q) ==
    LET lim == m.performance_limits.max_filters IN
    IF q.filters /= <<>> /\ IsSome(lim) /\ Len(q.filters) > Unwrap(lim)
    THEN <<PerformanceLimit("filter_count", Len(q.filters), Unwrap(lim))>>
    ELSE <<>>

\* check_query_support setting requires_fallback on any issue
check_query_support_AnyIssue(m, st, q) ==
    LET f == FacetCheck(m, st, q)
        h == HighlightCheck(m, st, q)
        issues == f.issues \o h.issues \o PerPageCheck(m, q)
                    \o QueryLengthCheck(m, q) \o FilterCountCheck(m, q)
    IN [is_fully_supported |-> issues = <<>>,
        requires_fallback |-> issues /= <<>>,
        issues |-> issues]

\* check_query_support deriving is_fully_supported from requires_fallback
check_query_support_NoFallback(m, st, q) ==
    LET f == FacetCheck(m, st, q)
        h == HighlightCheck(m, st, q)
        issues == f.issues \o h.issues \o PerPageCheck(m, q)
                    \o QueryLengthCheck(m, q) \o FilterCountCheck(m, q)
    IN [is_fully_supported |-> ~(f.fb \/ h.fb),
        requires_fallback |-> f.fb \/ h.fb,
        issues |-> issues]

\* check_query_support running the three limit steps before the two feature steps
check_query_support_LimitsFirst(m, st, q) ==
    LET f == FacetCheck(m, st, q)
        h == HighlightCheck(m, st, q)
        issues == PerPageCheck(m, q) \o QueryLengthCheck(m, q) \o FilterCountCheck(m, q)
                    \o f.issues \o h.issues
    IN [is_fully_supported |-> issues = <<>>,
        requires_fallback |-> f.fb \/ h.fb,
        issues |-> issues]

check_query_support(m, st, q) ==
    LET f == FacetCheck(m, st, q)
        h == HighlightCheck(m, st, q)
        issues == f.issues \o h.issues \o PerPageCheck(m, q)
                    \o QueryLengthCheck(m, q) \o FilterCountCheck(m, q)
    IN [is_fully_supported |-> issues = <<>>,
        requires_fallback |-> f.fb \/ h.fb,
        issues |-> issues]

(***************************************************************************)
(* JSON (serde_json)                                                       *)
(***************************************************************************)
JNull == <<"Null", 0>>
JBool(b) == <<"Bool", b>>
JNumber(n) == <<"Number", n>>
JString(s) == <<"String", s>>
JArray(a) == <<"Array", a>>
JObject(f) == <<"Object", f>>
JTag(val) == val[1]
JVal(val) == val[2]

JsonText(doc) == [valid |-> TRUE, doc |-> doc]
\* a String that is not JSON
NotJson == [valid |-> FALSE, doc |-> JNull]
\* the literal "{}"
EmptyObjectText == JsonText(JObject(<<>>))

\* serde_json::from_str::<Value>: Some(doc) on success, None on a parse error
from_str(text) == IF text.valid THEN Some(text.doc) ELSE None

\* Value::get(key): the member of an object, None for any other value
JsonGet(doc, key) ==
    IF JTag(doc) = "Object" /\ key \in DOMAIN JVal(doc) THEN Some(JVal(doc)[key]) ELSE None

RECURSIVE EscapeJson(_)
EscapeJson(s) ==
    IF s = <<>> THEN <<>>
    ELSE (IF Head(s) \in {"\"", "\\"} THEN <<"\\", Head(s)>> ELSE <<Head(s)>>)
            \o EscapeJson(Tail(s))

RECURSIVE JsonDisplay(_)
RECURSIVE JsonDisplayItems(_)
\* Value::to_string(): the compact JSON rendering (scalars and arrays)
JsonDisplay(val) ==
    CASE JTag(val) = "Null" -> <<"n","u","l","l">>
      [] JTag(val) = "Bool" -> IF JVal(val) THEN <<"t","r","u","e">> ELSE <<"f","a","l","s","e">>
      [] JTag(val) = "Number" -> DecimalString(JVal(val))
      [] JTag(val) = "String" -> <<"\"">> \o EscapeJson(JVal(val)) \o <<"\"">>
      [] JTag(val) = "Array" -> <<"[">> \o JsonDisplayItems(JVal(val)) \o <<"]">>

JsonDisplayItems(items) ==
    IF items = <<>> THEN <<>>
    ELSE IF Len(items) = 1 THEN JsonDisplay(items[1])
    ELSE JsonDisplay(items[1]) \o <<",">> \o JsonDisplayItems(Tail(items))

\* serde_json::to_string(&HashMap<String, HashMap<String, u32>>); the order of
\* the keys in the text is that of the hash maps and is not represented
FacetsToJson(m) ==
    JsonText(JObject([f \in DOMAIN m |->
        JObject([k \in DOMAIN m[f] |-> JNumber(m[f][k])])]))

\* serde_json::to_string(&HashMap<String, Vec<String>>)
HighlightsToJson(m) ==
    JsonText(JObject([f \in DOMAIN m |->
        JArray([i \in DOMAIN m[f] |-> JString(m[f][i])])]))

(***************************************************************************)
(* FallbackProcessor.compute_client_side_facets                            *)
(***************************************************************************)
\* *map.entry(key).or_insert(0) += 1 (a u32 counter: the number of hits of the
\* model stays far below 2^32, where it would overflow)
IncrEntry(m, key) ==
    IF key \in DOMAIN m THEN [m EXCEPT ![key] = @ + 1] ELSE (key :> 1) @@ m

\* an array element: a string as it is, anything else by its JSON rendering
ItemStr(item) == IF JTag(item) = "String" THEN JVal(item) ELSE JsonDisplay(item)

RECURSIVE CountItems(_, _)
CountItems(arr, acc) ==
    IF arr = <<>> THEN acc
    ELSE CountItems(Tail(arr), IncrEntry(acc, ItemStr(Head(arr))))

\* the body of the loop over the hits, for one hit
CountHit(hit, field_name, acc) ==
    IF IsNone(hit.content) THEN acc
    ELSE LET parsed == from_str(Unwrap(hit.content)) IN
         IF IsNone(parsed) THEN acc
         ELSE LET fv == JsonGet(Unwrap(parsed), field_name) IN
              IF IsNone(fv) THEN acc
              ELSE LET val == Unwrap(fv) IN
                   CASE JTag(val) = "String" -> IncrEntry(acc, JVal(val))
                     [] JTag(val) = "Number" -> IncrEntry(acc, DecimalString(JVal(val)))
                     [] JTag(val) = "Bool" ->
                          IncrEntry(acc, IF JVal(val) THEN <<"t","r","u","e">>
                                                  ELSE <<"f","a","l","s","e">>)
                     [] JTag(val) = "Array" -> CountItems(JVal(val), acc)
                     [] OTHER -> IncrEntry(acc, JsonDisplay(val))

RECURSIVE FieldFacets(_, _, _)
FieldFacets(hits, field_name, acc) ==
    IF hits = <<>> THEN acc
    ELSE FieldFacets(Tail(hits), field_name, CountHit(Head(hits), field_name, acc))

RECURSIVE FacetLoop_InsertEmpty(_, _, _)
\* FacetLoop inserting a field's map even when it is empty
FacetLoop_InsertEmpty(hits, facet_fields, facets) ==
    IF facet_fields = <<>> THEN facets
    ELSE FacetLoop_InsertEmpty(hits, Tail(facet_fields),
            InsertEntry(facets, Head(facet_fields),
                        FieldFacets(hits, Head(facet_fields), <<>>)))

RECURSIVE FacetLoop(_, _, _)
FacetLoop(hits, facet_fields, facets) ==
    IF facet_fields = <<>> THEN facets
    ELSE LET field_facets == FieldFacets(hits, Head(facet_fields), <<>>) IN
         FacetLoop(hits, Tail(facet_fields),
                   IF field_facets /= <<>>
                   THEN InsertEntry(facets, Head(facet_fields), field_facets)
                   ELSE facets)

compute_client_side_facets(hits, facet_fields) == FacetLoop(hits, facet_fields, <<>>)

(***************************************************************************)
(* Client-side highlighting                                                *)
(***************************************************************************)
SnippetWindow == 50
MaxSnippets == 3
DefaultPreTag == <<"<","m","a","r","k",">">>
DefaultPostTag == <<"<","/","m","a","r","k",">">>

Min(a, b) == IF a < b THEN a ELSE b
\* usize::saturating_sub
SaturatingSub(a, b) == IF a > b THEN a - b ELSE 0

RECURSIVE SplitWhitespace(_, _)
\* str::split_whitespace: the maximal runs of non-whitespace characters
SplitWhitespace(s, cur) ==
    IF s = <<>> THEN (IF cur = <<>> THEN <<>> ELSE <<cur>>)
    ELSE IF IsWhitespace(Head(s))
         THEN (IF cur = <<>> THEN <<>> ELSE <<cur>>) \o SplitWhitespace(Tail(s), <<>>)
         ELSE SplitWhitespace(Tail(s), Append(cur, Head(s)))

\* term.chars().filter(|c| c.is_alphanumeric()).collect::<String>().to_lowercase()
CleanTerm(term) == ToLowercase(SelectSeq(term, IsAlphanumeric))

RECURSIVE CleanTerms(_)
CleanTerms(words) ==
    IF words = <<>> THEN <<>>
    ELSE LET clean_term == CleanTerm(Head(words)) IN
         (IF clean_term /= <<>> /\ ByteLen(clean_term) > 2 THEN <<clean_term>> ELSE <<>>)
            \o CleanTerms(Tail(words))

extract_search_terms(q) ==
    IF IsSome(q.q) THEN CleanTerms(SplitWhitespace(Unwrap(q.q), <<>>)) ELSE <<>>

\* the characters before the one at 0-based index i
Prefix(s, i) == SubSeq(s, 1, i)
RECURSIVE CharsBefore(_, _, _, _)
\* Some(number of characters of s that end at byte offset k), None when k
\* is inside a character or past the end; i characters, of byte length
\* bytes, have been passed
CharsBefore(s, k, i, bytes) ==
    IF bytes = k THEN Some(i)
    ELSE IF bytes > k \/ i = Len(s) THEN None
    ELSE CharsBefore(s, k, i + 1, bytes + Utf8Len(s[i + 1]))

\* k is the byte offset of a character of s, or its byte length
IsCharBoundary(s, k) == IsSome(CharsBefore(s, k, 0, 0))
CharIndexOfByte(s, k) == Unwrap(CharsBefore(s, k, 0, 0))

\* str::find(pattern): Some(byte offset of the first occurrence), or None
Find(s, pat) ==
    LET starts == {i \in 0..(Len(s) - Len(pat)) : SubSeq(s, i + 1, i + Len(pat)) = pat} IN
    IF Len(pat) > Len(s) \/ starts = {} THEN None
    ELSE Some(ByteLen(Prefix(s, CHOOSE i \in starts : \A j \in starts : i <= j)))

\* &s[a..b] by byte offsets: None stands for the panic of an offset that is
\* not a character boundary or of a > b
ByteSlice(s, a, b) ==
    IF a <= b /\ IsCharBoundary(s, a) /\ IsCharBoundary(s, b)
    THEN Some(SubSeq(s, CharIndexOfByte(s, a) + 1, CharIndexOfByte(s, b)))
    ELSE None

\* (?i)\bterm\b matches at the (1-based) position i of s
TermMatchesAt(s, term, i) ==
    /\ i + Len(term) - 1 <= Len(s)
    /\ ToLowercase(SubSeq(s, i, i + Len(term) - 1)) = term
    /\ (i = 1 \/ ~IsWordChar(s[i - 1]))
    /\ (i + Len(term) - 1 = Len(s) \/ ~IsWordChar(s[i + Len(term)]))

RECURSIVE ReplaceAllFrom(_, _, _, _, _)
\* Regex::replace_all: the leftmost non-overlapping matches are wrapped
ReplaceAllFrom(s, term, pre_tag, post_tag, i) ==
    IF i > Len(s) THEN <<>>
    ELSE IF TermMatchesAt(s, term, i)
         THEN pre_tag \o SubSeq(s, i, i + Len(term) - 1) \o post_tag
                \o ReplaceAllFrom(s, term, pre_tag, post_tag, i + Len(term))
         ELSE <<s[i]>> \o ReplaceAllFrom(s, term, pre_tag, post_tag, i + 1)

ReplaceAll(s, term, pre_tag, post_tag) == ReplaceAllFrom(s, term, pre_tag, post_tag, 1)

RECURSIVE InsertSorted(_, _)
InsertSorted(sorted, x) ==
    IF sorted = <<>> THEN <<x>>
    ELSE IF StrLess(x, Head(sorted)) THEN <<x>> \o sorted
    ELSE <<Head(sorted)>> \o InsertSorted(Tail(sorted), x)

RECURSIVE SortStrings(_)
\* Vec<String>::sort_unstable (equal strings are indistinguishable)
SortStrings(v) == IF v = <<>> THEN <<>> ELSE InsertSorted(SortStrings(Tail(v)), Head(v))

\* dedup keeping every element
Dedup_KeepAll(v) == v

RECURSIVE Dedup(_)
\* Vec::dedup: consecutive equal elements are removed
Dedup(v) ==
    IF Len(v) < 2 THEN v
    ELSE IF v[1] = v[2] THEN Dedup(Tail(v)) ELSE <<v[1]>> \o Dedup(Tail(v))

\* Vec::truncate
Truncate(v, n) == SubSeq(v, 1, Min(n, Len(v)))

\* the body of the loop over the search terms, for one term:
\* [panic, snippets] with the snippets pushed so far
SnippetStep(text, term, pre_tag, post_tag, max_length, snippets) ==
    LET Keep == [panic |-> FALSE, snippets |-> snippets]
        \* let highlighted = regex.replace_all(snippet, ...); snippets.push(highlighted)
        Push(slice) ==
            IF IsNone(slice) THEN [panic |-> TRUE, snippets |-> snippets]
            ELSE [panic |-> FALSE,
                  snippets |-> Append(snippets,
                                 ReplaceAll(Unwrap(slice), term, pre_tag, post_tag))]
        \* if snippet_start < text.len() { let snippet = &text[snippet_start..snippet_end]
        Cut(snippet_start, snippet_end) ==
            IF snippet_start < ByteLen(text)
            THEN Push(ByteSlice(text, snippet_start, snippet_end)) ELSE Keep
        \* snippet_end, clipped by max_length and by text.len()
        SnippetEnd(pos, snippet_start) ==
            Min(IF IsSome(max_length)
                THEN Min(pos + ByteLen(term) + SnippetWindow,
                         snippet_start + Unwrap(max_length))
                ELSE pos + ByteLen(term) + SnippetWindow,
                ByteLen(text))
        Window(pos, snippet_start) == Cut(snippet_start, SnippetEnd(pos, snippet_start))
        \* if let Some(pos) = text.to_lowercase().find(term)
        IfFound(found) ==
            IF IsNone(found) THEN Keep
            ELSE Window(Unwrap(found), SaturatingSub(Unwrap(found), SnippetWindow))
    IN IfFound(Find(ToLowercase(text), term))

RECURSIVE SnippetLoop(_, _, _, _, _, _)
SnippetLoop(text, search_terms, pre_tag, post_tag, max_length, snippets) ==
    LET Rest(r) ==
            IF r.panic THEN r
            ELSE SnippetLoop(text, Tail(search_terms), pre_tag, post_tag,
                             max_length, r.snippets)
    IN IF search_terms = <<>> THEN [panic |-> FALSE, snippets |-> snippets]
       ELSE Rest(SnippetStep(text, Head(search_terms), pre_tag, post_tag,
                             max_length, snippets))

\* [panic, snippets]: the snippets returned, or the panic of a byte slice
highlight_text(text, search_terms, pre_tag, post_tag, max_length) ==
    LET \* snippets.sort_unstable(); snippets.dedup(); snippets.truncate(3)
        Finish(r) ==
            IF r.panic THEN r
            ELSE [panic |-> FALSE,
                  snippets |-> Truncate(Dedup(SortStrings(r.snippets)), MaxSnippets)]
    IN Finish(SnippetLoop(text, search_terms, pre_tag, post_tag, max_length, <<>>))

RECURSIVE HighlightFields(_, _, _, _, _, _, _)
\* the loop of generate_highlights over highlight_fields
HighlightFields(doc, highlight_fields, search_terms, pre_tag, post_tag, max_length, highlights) ==
    LET field_name == Head(highlight_fields)
        rest == Tail(highlight_fields)
        \* if !field_highlights.is_empty() { highlights.insert(field_name, ...) }
        Insert(r) ==
            IF r.panic THEN [panic |-> TRUE, highlights |-> highlights]
            ELSE HighlightFields(doc, rest, search_terms, pre_tag, post_tag, max_length,
                   IF r.snippets /= <<>>
                   THEN InsertEntry(highlights, field_name, r.snippets)
                   ELSE highlights)
        \* if let Some(field_value) = doc.get(field_name) { if let Some(text) = ...as_str()
        Field(fv) ==
            IF IsSome(fv) /\ JTag(Unwrap(fv)) = "String"
            THEN Insert(highlight_text(JVal(Unwrap(fv)), search_terms, pre_tag,
                                       post_tag, max_length))
            ELSE HighlightFields(doc, rest, search_terms, pre_tag, post_tag,
                                 max_length, highlights)
    IN IF highlight_fields = <<>> THEN [panic |-> FALSE, highlights |-> highlights]
       ELSE Field(JsonGet(doc, field_name))

generate_highlights(doc, highlight_fields, search_terms, pre_tag, post_tag, max_length) ==
    HighlightFields(doc, highlight_fields, search_terms, pre_tag, post_tag, max_length, <<>>)

\* HighlightHit storing the map of the hit even when it is empty
HighlightHit_StoreEmpty(hit, search_terms, pre_tag, post_tag, highlight_config) ==
    LET Store(r) ==
            IF r.panic THEN [panic |-> TRUE, hit |-> hit]
            ELSE [panic |-> FALSE,
                  hit |-> [hit EXCEPT !.highlights = Some(HighlightsToJson(r.highlights))]]
        Parsed(parsed) ==
            IF IsNone(parsed) THEN [panic |-> FALSE, hit |-> hit]
            ELSE Store(generate_highlights(Unwrap(parsed), highlight_config.fields,
                                           search_terms, pre_tag, post_tag,
                                           highlight_config.max_length))
    IN IF IsNone(hit.content) THEN [panic |-> FALSE, hit |-> hit]
       ELSE Parsed(from_str(Unwrap(hit.content)))

\* the body of the loop of apply_client_side_highlighting, for one hit
HighlightHit(hit, search_terms, pre_tag, post_tag, highlight_config) ==
    LET \* if !highlights.is_empty() { hit.highlights = Some(to_string(&highlights)) }
        Store(r) ==
            IF r.panic THEN [panic |-> TRUE, hit |-> hit]
            ELSE IF r.highlights /= <<>>
                 THEN [panic |-> FALSE,
                       hit |-> [hit EXCEPT !.highlights =
                                   Some(HighlightsToJson(r.highlights))]]
                 ELSE [panic |-> FALSE, hit |-> hit]
        \* if let Ok(doc) = serde_json::from_str::<Value>(content)
        Parsed(parsed) ==
            IF IsNone(parsed) THEN [panic |-> FALSE, hit |-> hit]
            ELSE Store(generate_highlights(Unwrap(parsed), highlight_config.fields,
                                           search_terms, pre_tag, post_tag,
                                           highlight_config.max_length))
    IN IF IsNone(hit.content) THEN [panic |-> FALSE, hit |-> hit]
       ELSE Parsed(from_str(Unwrap(hit.content)))

RECURSIVE HighlightHits(_, _, _, _, _, _)
\* hits before i are done; a panic leaves the later hits as they were
HighlightHits(hits, i, search_terms, pre_tag, post_tag, highlight_config) ==
    LET Rest(r) ==
            IF r.panic THEN [panic |-> TRUE, hits |-> hits]
            ELSE HighlightHits([hits EXCEPT ![i] = r.hit], i + 1, search_terms,
                               pre_tag, post_tag, highlight_config)
    IN IF i > Len(hits) THEN [panic |-> FALSE, hits |-> hits]
       ELSE Rest(HighlightHit(hits[i], search_terms, pre_tag, post_tag, highlight_config))

apply_client_side_highlighting(hits, q, highlight_config) ==
    LET search_terms == extract_search_terms(q)
        pre_tag == IF IsSome(highlight_config.pre_tag)
                   THEN Unwrap(highlight_config.pre_tag) ELSE DefaultPreTag
        post_tag == IF IsSome(highlight_config.post_tag)
                    THEN Unwrap(highlight_config.post_tag) ELSE DefaultPostTag
    IN HighlightHits(hits, 1, search_terms, pre_tag, post_tag, highlight_config)

(***************************************************************************)
(* FallbackProcessor.process_search_results                                *)
(* Each operator returns [ret, results, trace]: the Result of the call     *)
(* ("Ok", the SearchError variant, or "Panic"), the SearchResults as the   *)
(* call leaves it, and the private steps entered.                          *)
(***************************************************************************)
\* apply_facet_fallback writing facets only where they are absent
apply_facet_fallback_FillAbsent(st, res, q) ==
    CASE st.facet_fallback = "Empty" ->
            [ret |-> "Ok",
             results |-> IF IsNone(res.facets)
                         THEN [res EXCEPT !.facets = Some(EmptyObjectText)] ELSE res]
      [] st.facet_fallback = "ClientSide" ->
            [ret |-> "Ok",
             results |-> IF IsNone(res.facets)
                         THEN [res EXCEPT !.facets =
                            Some(FacetsToJson(compute_client_side_facets(res.hits, q.facets)))]
                         ELSE res]
      [] st.facet_fallback = "SeparateQueries" ->
            [ret |-> "Ok",
             results |-> IF IsNone(res.facets)
                         THEN [res EXCEPT !.facets = Some(EmptyObjectText)] ELSE res]
      [] st.facet_fallback = "Error" ->
            [ret |-> "Unsupported", results |-> res]

\* apply_facet_fallback leaving the facets to the separate query it does not issue
apply_facet_fallback_SeparateKeeps(st, res, q) ==
    CASE st.facet_fallback = "Empty" ->
            [ret |-> "Ok", results |-> [res EXCEPT !.facets = Some(EmptyObjectText)]]
      [] st.facet_fallback = "ClientSide" ->
            [ret |-> "Ok",
             results |-> [res EXCEPT !.facets =
                Some(FacetsToJson(compute_client_side_facets(res.hits, q.facets)))]]
      [] st.facet_fallback = "SeparateQueries" ->
            [ret |-> "Ok", results |-> res]
      [] st.facet_fallback = "Error" ->
            [ret |-> "Unsupported", results |-> res]

apply_facet_fallback(st, res, q) ==
    CASE st.facet_fallback = "Empty" ->
            [ret |-> "Ok", results |-> [res EXCEPT !.facets = Some(EmptyObjectText)]]
      [] st.facet_fallback = "ClientSide" ->
            [ret |-> "Ok",
             results |-> [res EXCEPT !.facets =
                Some(FacetsToJson(compute_client_side_facets(res.hits, q.facets)))]]
      [] st.facet_fallback = "SeparateQueries" ->
            [ret |-> "Ok", results |-> [res EXCEPT !.facets = Some(EmptyObjectText)]]
      [] st.facet_fallback = "Error" ->
            [ret |-> "Unsupported", results |-> res]

\* clearing the hits themselves
ClearHighlights_DropHits(hits) == <<>>

\* hit.highlights = None for every hit
ClearHighlights(hits) == [i \in DOMAIN hits |-> [hits[i] EXCEPT !.highlights = None]]

apply_highlight_fallback(st, res, q) ==
    LET Highlighted(r) ==
            [ret |-> IF r.panic THEN "Panic" ELSE "Ok",
             results |-> [res EXCEPT !.hits = r.hits]]
    IN CASE st.highlight_fallback = "None" ->
            [ret |-> "Ok", results |-> [res EXCEPT !.hits = ClearHighlights(res.hits)]]
      [] st.highlight_fallback = "ClientSide" ->
            IF IsSome(q.highlight)
            THEN Highlighted(apply_client_side_highlighting(res.hits, q,
                                                            Unwrap(q.highlight)))
            ELSE [ret |-> "Ok", results |-> res]
      [] st.highlight_fallback = "Error" ->
            [ret |-> "Unsupported", results |-> res]

\* apply_post_processing resetting took_ms whether or not it is present
apply_post_processing_ResetTook(st, res, q) ==
    LET r1 == IF IsNone(res.total)
              THEN [res EXCEPT !.total = Some(Len(res.hits))] ELSE res
    IN [ret |-> "Ok", results |-> [r1 EXCEPT !.took_ms = Some(0)]]

\* apply_post_processing adding the time of this pass to a took_ms already present
apply_post_processing_AddTook(st, res, q) ==
    LET r1 == IF IsNone(res.total)
              THEN [res EXCEPT !.total = Some(Len(res.hits))] ELSE res
        r2 == IF IsNone(r1.took_ms) THEN [r1 EXCEPT !.took_ms = Some(0)]
              ELSE [r1 EXCEPT !.took_ms = Some(Unwrap(r1.took_ms) + 1)]
    IN [ret |-> "Ok", results |-> r2]

apply_post_processing(st, res, q) ==
    LET r1 == IF IsNone(res.total)
              THEN [res EXCEPT !.total = Some(Len(res.hits))] ELSE res
        r2 == IF IsNone(r1.took_ms) THEN [r1 EXCEPT !.took_ms = Some(0)] ELSE r1
    IN [ret |-> "Ok", results |-> r2]

\* an absent key taken as Native
FeatureOrNative(features, name) ==
    IF name \in DOMAIN features THEN features[name] ELSE "Native"

\* supported_features.get(name).copied().unwrap_or(FeatureSupport::Unsupported)
FeatureOrUnsupported(features, name) ==
    IF name \in DOMAIN features THEN features[name] ELSE "Unsupported"

\* the faceting block of process_search_results
FacetStage(st, res, q, features) ==
    LET Applied(r) ==
            [ret |-> r.ret, results |-> r.results, trace |-> <<"apply_facet_fallback">>]
    IN IF q.facets /= <<>>
          /\ LET facet_support == FeatureOrUnsupported(features, "faceted_search") IN
             facet_support = "Unsupported" \/ facet_support = "Emulated"
       THEN Applied(apply_facet_fallback(st, res, q))
       ELSE [ret |-> "Ok", results |-> res, trace |-> <<>>]

\* the highlighting block of process_search_results
HighlightStage(st, res, q, features) ==
    LET Applied(r) ==
            [ret |-> r.ret, results |-> r.results,
             trace |-> <<"apply_highlight_fallback">>]
    IN IF IsSome(q.highlight)
          /\ LET highlight_support == FeatureOrUnsupported(features, "highlighting") IN
             highlight_support = "Unsupported" \/ highlight_support = "Emulated"
       THEN Applied(apply_highlight_fallback(st, res, q))
       ELSE [ret |-> "Ok", results |-> res, trace |-> <<>>]

\* process_search_results going on after a failed facet fallback
process_search_results_IgnoreFacetError(st, res, original_query, features) ==
    LET PostProcessed(f, h, p) ==
            [ret |-> f.ret, results |-> p.results,
             trace |-> f.trace \o h.trace \o <<"apply_post_processing">>]
        AfterHighlights(f, h) ==
            IF h.ret /= "Ok"
            THEN [ret |-> h.ret, results |-> h.results, trace |-> f.trace \o h.trace]
            ELSE PostProcessed(f, h, apply_post_processing(st, h.results, original_query))
        AfterFacets(f) ==
            AfterHighlights(f, HighlightStage(st, f.results, original_query, features))
    IN AfterFacets(FacetStage(st, res, original_query, features))

\* process_search_results restoring results when the highlight fallback fails
process_search_results_Rollback(st, res, original_query, features) ==
    LET PostProcessed(f, h, p) ==
            [ret |-> p.ret, results |-> p.results,
             trace |-> f.trace \o h.trace \o <<"apply_post_processing">>]
        AfterHighlights(f, h) ==
            IF h.ret /= "Ok"
            THEN [ret |-> h.ret, results |-> res, trace |-> f.trace \o h.trace]
            ELSE PostProcessed(f, h, apply_post_processing(st, h.results, original_query))
        AfterFacets(f) ==
            IF f.ret /= "Ok" THEN f
            ELSE AfterHighlights(f, HighlightStage(st, f.results, original_query, features))
    IN AfterFacets(FacetStage(st, res, original_query, features))

process_search_results(st, res, original_query, features) ==
    LET \* self.apply_post_processing(results, original_query)?; Ok(())
        PostProcessed(f, h, p) ==
            [ret |-> p.ret, results |-> p.results,
             trace |-> f.trace \o h.trace \o <<"apply_post_processing">>]
        \* self.apply_highlight_fallback(results, original_query)?
        AfterHighlights(f, h) ==
            IF h.ret /= "Ok"
            THEN [ret |-> h.ret, results |-> h.results, trace |-> f.trace \o h.trace]
            ELSE PostProcessed(f, h, apply_post_processing(st, h.results, original_query))
        \* self.apply_facet_fallback(results, original_query)?
        AfterFacets(f) ==
            IF f.ret /= "Ok" THEN f
            ELSE AfterHighlights(f, HighlightStage(st, f.results, original_query, features))
    IN AfterFacets(FacetStage(st, res, original_query, features))

(***************************************************************************)
(* StreamingFallback (self = [page_size, max_pages])                       *)
(* took_ms is a u32 that combine_results adds up: in the pages given to    *)
(* it and in its result a took_ms value is written <<high 16 bits, low 16  *)
(* bits>>, so that sums up to and beyond 2^32 - 1 can be told apart.       *)
(***************************************************************************)
DefaultMaxPages == 10

\* paginate_query numbering the pages from 1
paginate_query_FromOne(self, q) ==
    LET max_pages == IF IsSome(self.max_pages) THEN Unwrap(self.max_pages)
                     ELSE DefaultMaxPages
    IN [i \in 1..max_pages |->
           [q EXCEPT !.page = Some(i), !.per_page = Some(self.page_size)]]

\* the Vec of paginated queries, for page in 0..max_pages
paginate_query(self, q) ==
    LET max_pages == IF IsSome(self.max_pages) THEN Unwrap(self.max_pages)
                     ELSE DefaultMaxPages
    IN [i \in 1..max_pages |->
           [q EXCEPT !.page = Some(i - 1), !.per_page = Some(self.page_size)]]

\* a + b on u32: the sum modulo 2^32, and whether it overflowed
AddU32(a, b) ==
    LET lo == a[2] + b[2]
        hi == a[1] + b[1] + (lo \div 65536)
    IN [overflow |-> hi >= 65536, value |-> <<hi % 65536, lo % 65536>>]

RECURSIVE CombineLoop(_, _, _, _, _)
\* the loop over page_results from page i on: [panic, hits, total_time].
\* total_time += time panics on overflow when the build has overflow checks
\* (the dev profile) and wraps when it has not (the release profile).
CombineLoop(page_results, i, combined_hits, total_time, overflow_checks) ==
    LET Added(sum) ==
            IF sum.overflow /\ overflow_checks
            THEN [panic |-> TRUE, hits |-> combined_hits, total_time |-> total_time]
            ELSE CombineLoop(page_results, i + 1, combined_hits \o page_results[i].hits,
                             sum.value, overflow_checks)
    IN IF i > Len(page_results)
       THEN [panic |-> FALSE, hits |-> combined_hits, total_time |-> total_time]
       ELSE IF IsSome(page_results[i].took_ms)
            THEN Added(AddU32(total_time, Unwrap(page_results[i].took_ms)))
            ELSE CombineLoop(page_results, i + 1, combined_hits \o page_results[i].hits,
                             total_time, overflow_checks)

\* [ret, value]: Ok with the combined SearchResults, or the overflow panic
combine_results(self, page_results, overflow_checks) ==
    LET Combined(c) ==
            IF c.panic THEN [ret |-> "Panic", value |-> None]
            ELSE [ret |-> "Ok",
                  value |-> Some([total |-> page_results[1].total,
                                  page |-> Some(0),
                                  per_page |-> Some(Len(c.hits)),
                                  hits |-> c.hits,
                                  facets |-> page_results[1].facets,
                                  took_ms |-> Some(c.total_time)])]
    IN IF page_results = <<>>
       THEN [ret |-> "Ok",
             value |-> Some([total |-> Some(0), page |-> Some(0),
                             per_page |-> Some(self.page_size), hits |-> <<>>,
                             facets |-> None, took_ms |-> Some(<<0, 0>>)])]
       ELSE Combined(CombineLoop(page_results, 1, <<>>, <<0, 0>>, overflow_checks))

(***************************************************************************)
(* FeatureDetector.estimate_fallback_performance_impact                    *)
(***************************************************************************)
\* the variants of PerformanceImpact in the order derive(Ord) gives them
PerformanceImpact == <<"Low", "Medium", "High">>

\* Ord::max
ImpactMax(a, b) ==
    IF IndexIn(PerformanceImpact, b) >= IndexIn(PerformanceImpact, a) THEN b ELSE a

\* the estimate keeping the contribution of the last feature only
estimate_fallback_performance_impact_LastOnly(q, unsupported_features) ==
    LET Contribution(feature) ==
            CASE feature = "faceted_search" ->
                    IF Len(q.facets) > 10 THEN "High"
                    ELSE IF Len(q.facets) > 3 THEN "Medium" ELSE "Low"
              [] feature = "highlighting" -> "Low"
              [] feature = "streaming_search" -> "Medium"
              [] feature = "vector_search" -> "High"
              [] OTHER -> "Medium"
        impact[i \in 0..Len(unsupported_features)] ==
            IF i = 0 THEN "Low" ELSE Contribution(unsupported_features[i])
    IN impact[Len(unsupported_features)]

estimate_fallback_performance_impact(q, unsupported_features) ==
    LET Contribution(feature) ==
            CASE feature = "faceted_search" ->
                    IF Len(q.facets) > 10 THEN "High"
                    ELSE IF Len(q.facets) > 3 THEN "Medium" ELSE "Low"
              [] feature = "highlighting" -> "Low"
              [] feature = "streaming_search" -> "Medium"
              [] feature = "vector_search" -> "High"
              [] OTHER -> "Medium"
        \* impact after the first i features
        impact[i \in 0..Len(unsupported_features)] ==
            IF i = 0 THEN "Low"
            ELSE ImpactMax(impact[i - 1], Contribution(unsupported_features[i]))
    IN impact[Len(unsupported_features)]

(***************************************************************************)
(* retry_with_backoff (utils.rs)                                           *)
(* A SearchError is <<variant, message>>; a SearchResult is <<"Ok", value>> *)
(* or <<"Err", error>>.  The f64 backoff_multiplier is the fraction        *)
(* num/den, and (delay_ms as f64 * multiplier) as u64 is the product       *)
(* rounded toward zero, which is what the cast gives for delays below 2^53. *)
(* retry = [config, pc, attempt, delay_ms, last_error, outcomes, slept,    *)
(* result]: outcomes are the results of the invocations of the operation   *)
(* so far, slept the delays handed to tokio::time::sleep so far.           *)
(***************************************************************************)
DefaultRetryConfig ==
    [max_attempts |-> 3, base_delay_ms |-> 100, max_delay_ms |-> 5000,
     backoff_multiplier |-> [num |-> 2, den |-> 1]]

\* the errors not retried, without InvalidQuery
NotRetried_OnlyUnsupported(error) == error[1] = "Unsupported"

\* SearchError::InvalidQuery(_) | SearchError::Unsupported
NotRetried(error) == error[1] \in {"InvalidQuery", "Unsupported"}

(***************************************************************************)
(* SearchHitStream (utils.rs)                                              *)
(* stream = [channel, sender, receiver, buffer, finished, consumer,        *)
(* producer, overflow_checks, returned, fetched, sent, errors].  channel   *)
(* is the                                                                  *)
(* queue of the mpsc channel, of items <<"Ok", hit>> and <<"Err", error>>; *)
(* sender and receiver tell whether that end still exists.  Hits are       *)
(* numbered in the order they are produced.  consumer is [pc, size,        *)
(* batch], the caller of next_batch; producer is [pc, page, per_page,      *)
(* pending, has_more], the task from_paginated spawns, or the holder of    *)
(* the Sender of new() when pc = "sender".  page is a u32 written <<high   *)
(* 16 bits, low 16 bits>>.  returned (the calls of next_batch that         *)
(* returned), fetched (the calls of fetch_page, hits = -1 for an error),   *)
(* sent (hits produced) and errors (errors sent by the holder of the       *)
(* Sender) are history.                                                    *)
(***************************************************************************)
\* mpsc::channel(100)
ChannelCapacity == 100

\* SearchHitStream::new() and the Sender it returns
NewStream ==
    [channel |-> <<>>, sender |-> TRUE, receiver |-> TRUE,
     buffer |-> <<>>, finished |-> FALSE,
     consumer |-> [pc |-> "idle", size |-> 0, batch |-> <<>>],
     producer |-> [pc |-> "sender", page |-> <<0, 0>>, per_page |-> 0,
                   pending |-> <<>>, has_more |-> FALSE],
     overflow_checks |-> FALSE, returned |-> <<>>, fetched |-> <<>>, sent |-> 0,
     errors |-> 0]

\* SearchHitStream::from_paginated up to the first call of fetch_page
from_paginated(q, page_size) ==
    [NewStream EXCEPT
        !.producer = [pc |-> "fetch",
                      page |-> IF IsSome(q.page) THEN Unwrap(q.page) ELSE <<0, 0>>,
                      per_page |-> IF IsSome(q.per_page) THEN Unwrap(q.per_page) ELSE page_size,
                      pending |-> <<>>, has_more |-> FALSE]]

\* the task ends: the Sender is dropped
TaskEnded(st, pc) ==
    [st EXCEPT !.sender = FALSE, !.producer.pc = pc, !.producer.pending = <<>>]

\* after the hits of a page are sent: break, or page += 1 and the next turn
AfterPage(st) ==
    LET Advanced(next) ==
            IF next.overflow /\ st.overflow_checks THEN TaskEnded(st, "panicked")
            ELSE [st EXCEPT !.producer.pc = "fetch", !.producer.pending = <<>>,
                            !.producer.page = next.value]
    IN IF ~st.producer.has_more THEN TaskEnded(st, "done")
       ELSE Advanced(AddU32(st.producer.page, <<0, 1>>))

\* next_batch returns result
ReturnedBatch(st, size, batch, finished_before) ==
    [st EXCEPT !.consumer = [pc |-> "idle", size |-> 0, batch |-> <<>>],
               !.returned = Append(@, [size |-> size, finished_before |-> finished_before,
                                       result |-> IF batch = <<>> THEN None ELSE Some(batch)])]

(***************************************************************************)
(* RateLimiter (utils.rs)                                                  *)
(* limiter = [max_permits, refill_rate, overflow_checks, permits,          *)
(* last_refill, clock, lock, poisoned, threads, started, ticks, refilled,  *)
(* at_refill, granted].  lock[m] is the thread holding mutex m, 0 when it  *)
(* is free; poisoned[m] is set when a thread panics holding m, and         *)
(* lock().unwrap() on a poisoned mutex panics.  A thread is [pc, now,      *)
(* to_add, result].  permits_to_add is a u32 written <<high 16 bits, low   *)
(* 16 bits>>.  started, ticks, refilled, at_refill (permits left by the     *)
(* last refill, or by new) and granted (acquisitions since) are history.   *)
(***************************************************************************)
\* Duration::as_secs
as_secs(ticks) == ticks \div TicksPerSecond

\* now.duration_since(earlier): zero when earlier is later than now
duration_since(now, earlier) == SaturatingSub(now, earlier)

RECURSIVE MulU32(_, _)
\* a * b on u32, for b written in halves: the product modulo 2^32, and whether
\* it overflowed
MulU32(a, b) ==
    LET Doubled(half) ==
            LET twice == AddU32(half.value, half.value)
                odd == AddU32(twice.value, IF a % 2 = 1 THEN b ELSE <<0, 0>>)
            IN [overflow |-> half.overflow \/ twice.overflow \/ odd.overflow,
                value |-> odd.value]
    IN IF a = 0 THEN [overflow |-> FALSE, value |-> <<0, 0>>]
       ELSE Doubled(MulU32(a \div 2, b))

\* std::cmp::min(*permits + permits_to_add, max_permits) without the minimum
CappedSum_NoCap(sum, max_permits) == sum[1] * 65536 + sum[2]

\* std::cmp::min(sum, max_permits) for a sum written in halves
CappedSum(sum, max_permits) ==
    IF sum[1] >= 32768 THEN max_permits
    ELSE Min(sum[1] * 65536 + sum[2], max_permits)

\* thread t panics: every mutex it holds is released poisoned
Panicked(l, t) ==
    [l EXCEPT !.threads[t] = [pc |-> "panicked", now |-> 0, to_add |-> <<0, 0>>,
                              result |-> None],
              !.poisoned = [m \in DOMAIN l.lock |-> l.poisoned[m] \/ l.lock[m] = t],
              !.lock = [m \in DOMAIN l.lock |-> IF l.lock[m] = t THEN 0 ELSE l.lock[m]]]

(***************************************************************************)
(* Inputs                                                                  *)
(***************************************************************************)
SeqsUpTo(S, n) == UNION {[1..k -> S] : k \in 0..n}

TextRust == <<"r","u","s","t">>
TextRusty == <<"r","u","s","t","y">>
TextAccents == <<"é","é","é">>
TextQuery == <<"R","u","s","t","!">>
TextBooks == <<"b","o","o","k","s">>
TextToys == <<"t","o","y","s">>
TextTitle1 == <<"R","u","s","t"," ","b","o","o","k">>
TextTitle3 == <<"r","u","s","t"," ","é">>

BaseQuery ==
    [q |-> None, filters |-> <<>>, sort |-> <<>>, facets |-> <<>>, page |-> None,
     per_page |-> None, offset |-> None, highlight |-> None, config |-> None]

HighlightTitle ==
    [fields |-> <<"title">>, pre_tag |-> None, post_tag |-> None, max_length |-> Some(6)]

EmptyResults ==
    [total |-> None, page |-> None, per_page |-> None, hits |-> <<>>,
     facets |-> None, took_ms |-> None]

\* highlights and facets as a provider returns them
NativeHighlights == JsonText(JObject([k \in {"title"} |-> JArray(<<JString(TextBooks)>>)]))
NativeFacets ==
    JsonText(JObject([k \in {"category"} |-> JObject([v \in {TextBooks} |-> JNumber(5)])]))

Doc1 == JObject([k \in {"category", "title"} |->
            IF k = "category" THEN JString(TextBooks) ELSE JString(TextTitle1)])
Doc3 == JObject([k \in {"category", "title"} |->
            IF k = "category" THEN JArray(<<JString(TextBooks), JString(TextToys)>>)
            ELSE JString(TextTitle3)])

\* a hit whose title contains the search term and that carries native highlights
Hit1 == [id |-> "1", score |-> Some(3), content |-> Some(JsonText(Doc1)),
         highlights |-> Some(NativeHighlights)]
\* a hit whose content is not JSON
Hit2 == [id |-> "2", score |-> Some(2), content |-> Some(NotJson),
         highlights |-> Some(NativeHighlights)]
\* a hit whose title has a two-byte character where max_length cuts
Hit3 == [id |-> "3", score |-> None, content |-> Some(JsonText(Doc3)),
         highlights |-> None]
\* a hit without highlights whose title holds no search term
Hit4 == [id |-> "4", score |-> Some(1),
         content |-> Some(JsonText(JObject([k \in {"title"} |-> JString(TextToys)]))),
         highlights |-> None]
HitPool == {Hit1, Hit2, Hit3, Hit4}

Strategies ==
    {[DefaultStrategy EXCEPT !.facet_fallback = f, !.highlight_fallback = h,
                             !.strict_mode = s] :
        f \in FacetFallback, h \in HighlightFallback, s \in BOOLEAN}

\* feature maps: each of the two keys absent or bound to a support level
FeatureMaps ==
    UNION {[D -> FeatureSupport] : D \in SUBSET {"faceted_search", "highlighting"}}

(***************************************************************************)
(* Spec: process_search_results on a result set                            *)
(***************************************************************************)
Init ==
    /\ matrix = elasticsearch_capability_matrix
    /\ strategy \in Strategies
    /\ query \in {[BaseQuery EXCEPT !.q = Some(TextQuery), !.facets = f, !.highlight = h] :
                    f \in {<<>>, <<"category">>}, h \in OptionOf({HighlightTitle})}
    /\ supported_features \in FeatureMaps
    /\ results \in {[EmptyResults EXCEPT !.total = t, !.hits = hs, !.facets = fa,
                                         !.took_ms = ms] :
                    t \in OptionOf({7}), hs \in SeqsUpTo(HitPool, MaxHits),
                    fa \in OptionOf({NativeFacets}), ms \in OptionOf({5})}
    /\ results_before = results
    /\ support = None
    /\ ret = "none"
    /\ trace = <<>>
    /\ facets_out = None
    /\ calls = 0
    /\ args = None
    /\ output = None
    /\ retry = None
    /\ stream = None
    /\ limiter = None

\* one call of FallbackProcessor.process_search_results, the limit-th at most;
\* a panic ends the program
CallProcessSearchResults(limit) ==
    /\ calls < limit
    /\ ret /= "Panic"
    /\ LET Returned(r) ==
               /\ results' = r.results
               /\ ret' = r.ret
               /\ trace' = r.trace
       IN Returned(process_search_results(strategy, results, query, supported_features))
    /\ results_before' = results
    /\ calls' = calls + 1
    /\ UNCHANGED <<matrix, strategy, query, supported_features, support, facets_out,
                   args, output, retry, stream, limiter>>

ProcessSearchResults == CallProcessSearchResults(MaxCalls)

Next == ProcessSearchResults

Spec == Init /\ [][Next]_vars

(***************************************************************************)
(* SpecCheck: check_query_support on a matrix, a strategy and a query      *)
(***************************************************************************)
Matrices ==
    {[elasticsearch_capability_matrix EXCEPT
        !.advanced_features.faceted_search = fs,
        !.advanced_features.highlighting = hl,
        !.performance_limits.max_results_per_page = pp,
        !.performance_limits.max_query_length = ql,
        !.performance_limits.max_filters = mf] :
        fs \in FeatureSupport, hl \in FeatureSupport,
        pp \in OptionOf({2}), ql \in OptionOf({4}), mf \in OptionOf({1})}

\* every facet policy and every highlight policy, in four pairs
CheckStrategies ==
    {[DefaultStrategy EXCEPT !.facet_fallback = p[1], !.highlight_fallback = p[2]] :
        p \in {<<"Empty", "None">>, <<"ClientSide", "ClientSide">>,
               <<"SeparateQueries", "Error">>, <<"Error", "None">>}}

InitCheck ==
    /\ matrix \in Matrices
    /\ strategy \in CheckStrategies
    /\ query \in {[BaseQuery EXCEPT !.q = qt, !.filters = fl, !.facets = f,
                                    !.per_page = pp, !.highlight = h] :
                    qt \in OptionOf({TextRust, TextRusty, TextAccents}),
                    fl \in SeqsUpTo({"price > 10"}, MaxFilters),
                    f \in {<<>>, <<"category">>},
                    pp \in OptionOf((1..MaxPerPage) \cup {12}),
                    h \in OptionOf({HighlightTitle})}
    /\ supported_features = <<>>
    /\ results = EmptyResults
    /\ results_before = EmptyResults
    /\ support = None
    /\ ret = "none"
    /\ trace = <<>>
    /\ facets_out = None
    /\ calls = 0
    /\ args = None
    /\ output = None
    /\ retry = None
    /\ stream = None
    /\ limiter = None

\* one call of CapabilityChecker.check_query_support
CheckQuerySupport ==
    /\ IsNone(support)
    /\ support' = Some(check_query_support(matrix, strategy, query))
    /\ UNCHANGED <<matrix, strategy, query, supported_features, results,
                   results_before, ret, trace, facets_out, calls, args, output,
                   retry, stream, limiter>>

NextCheck == CheckQuerySupport

SpecCheck == InitCheck /\ [][NextCheck]_vars

(***************************************************************************)
(* SpecRepeat: process_search_results called again and again with the      *)
(* same query and feature map on the result set it has already processed   *)
(***************************************************************************)
InitRepeat ==
    /\ Init
    /\ strategy \in CheckStrategies

ProcessSearchResultsAgain == CallProcessSearchResults(MaxRepeats)

NextRepeat == ProcessSearchResultsAgain

SpecRepeat == InitRepeat /\ [][NextRepeat]_vars

(***************************************************************************)
(* SpecAgree: a provider with degradation support (a capability matrix and *)
(* a strategy) validating a query and processing its results               *)
(***************************************************************************)
InitAgree ==
    /\ matrix \in Matrices
    /\ strategy \in Strategies
    /\ strategy.strict_mode = FALSE
    /\ query \in {[BaseQuery EXCEPT !.q = Some(TextQuery), !.facets = f, !.highlight = h] :
                    f \in {<<>>, <<"category">>}, h \in OptionOf({HighlightTitle})}
    /\ supported_features = <<>>
    /\ results \in {[EmptyResults EXCEPT !.hits = hs] : hs \in SeqsUpTo(HitPool, MaxHits)}
    /\ results_before = results
    /\ support = None
    /\ ret = "none"
    /\ trace = <<>>
    /\ facets_out = None
    /\ calls = 0
    /\ args = None
    /\ output = None
    /\ retry = None
    /\ stream = None
    /\ limiter = None

\* one call of the provider's process_search_results: it builds the feature
\* map from its capability matrix and hands it to the fallback processor
ProviderProcessSearchResults ==
    /\ calls < MaxCalls
    /\ ret /= "Panic"
    /\ LET Returned(r) ==
               /\ results' = r.results
               /\ ret' = r.ret
               /\ trace' = r.trace
           Built(features) ==
               /\ supported_features' = features
               /\ Returned(process_search_results(strategy, results, query, features))
       IN Built(SupportedFeaturesOf([capability_matrix |-> matrix,
                                     degradation_strategy |-> strategy]))
    /\ results_before' = results
    /\ calls' = calls + 1
    /\ UNCHANGED <<matrix, strategy, query, support, facets_out, args, output,
                   retry, stream, limiter>>

NextAgree ==
    \/ CheckQuerySupport
    \/ ProviderProcessSearchResults

SpecAgree == InitAgree /\ [][NextAgree]_vars

(***************************************************************************)
(* SpecFacets: compute_client_side_facets on hits and facet fields         *)
(***************************************************************************)
Text10 == <<"1","0">>

FacetDocs ==
    { JObject([k \in {"category"} |-> JString(TextBooks)]),
      JObject([k \in {"category"} |-> JString(TextToys)]),
      JObject([k \in {"category", "tags"} |->
                IF k = "category"
                THEN JArray(<<JString(TextBooks), JString(TextToys), JString(TextBooks)>>)
                ELSE JArray(<<>>)]),
      JObject([k \in {"category", "tags"} |->
                IF k = "category" THEN JNumber(10)
                ELSE JArray(<<JString(Text10), JNumber(10), JBool(FALSE)>>)]),
      JObject([k \in {"category", "tags"} |->
                IF k = "category" THEN JNull ELSE JBool(TRUE)]),
      JObject(<<>>),
      JArray(<<JString(TextBooks)>>) }

FacetHits ==
    {[id |-> "h", score |-> None, content |-> c, highlights |-> None] :
        c \in {None, Some(NotJson)} \cup {Some(JsonText(d)) : d \in FacetDocs}}

InitFacets ==
    /\ matrix = elasticsearch_capability_matrix
    /\ strategy = DefaultStrategy
    /\ query \in {[BaseQuery EXCEPT !.facets = f] :
                    f \in SeqsUpTo({"category", "tags", "brand"}, 2)}
    /\ supported_features = <<>>
    /\ results \in {[EmptyResults EXCEPT !.hits = hs] : hs \in SeqsUpTo(FacetHits, MaxFacetHits)}
    /\ results_before = results
    /\ support = None
    /\ ret = "none"
    /\ trace = <<>>
    /\ facets_out = None
    /\ calls = 0
    /\ args = None
    /\ output = None
    /\ retry = None
    /\ stream = None
    /\ limiter = None

\* one call of compute_client_side_facets(&results.hits, &query.facets)
ComputeFacets ==
    /\ IsNone(facets_out)
    /\ facets_out' = Some(compute_client_side_facets(results.hits, query.facets))
    /\ UNCHANGED <<matrix, strategy, query, supported_features, results,
                   results_before, support, ret, trace, calls, args, output,
                   retry, stream, limiter>>

NextFacets == ComputeFacets

SpecFacets == InitFacets /\ [][NextFacets]_vars

(***************************************************************************)
(* SpecFn: the functions that are called on their own, each applied once   *)
(* to arguments drawn from a bounded set                                   *)
(***************************************************************************)
\* the variables of the checker and of the fallback processor, at rest
Idle ==
    /\ matrix = elasticsearch_capability_matrix
    /\ strategy = DefaultStrategy
    /\ query = BaseQuery
    /\ supported_features = <<>>
    /\ results = EmptyResults
    /\ results_before = EmptyResults
    /\ support = None
    /\ ret = "none"
    /\ trace = <<>>
    /\ facets_out = None
    /\ calls = 0

\* the text of test_client_side_highlighting
TextExample ==
    <<"R","u","s","t"," ","i","s"," ","a"," ","g","r","e","a","t"," ","p",
      "r","o","g","r","a","m","m","i","n","g"," ","l","a","n","g","u","a",
      "g","e"," ","f","o","r"," ","s","y","s","t","e","m","s"," ","p","r",
      "o","g","r","a","m","m","i","n","g">>
TextProgramming == <<"p","r","o","g","r","a","m","m","i","n","g">>

\* texts to highlight: short ones, one with a two-byte character, the text
\* of the test, and one whose occurrence of "rust" lies more than 50 bytes in
HighlightTexts ==
    {TextTitle1, TextTitle3, TextRusty, TextExample,
     <<"S","y","s","t","e","m","s"," ","p","r","o","g","r","a","m","m","i",
       "n","g"," ","i","s"," ","a"," ","g","r","e","a","t"," ","f","i","t",
       " ","f","o","r"," ","a"," ","l","a","n","g","u","a","g","e"," ","s",
       "u","c","h"," ","a","s"," ","R","u","s","t">>}

\* search terms as extract_search_terms yields them
HighlightTerms ==
    {TextRust, TextProgramming, <<"g","r","e","a","t">>, <<"s","y","s","t","e","m","s">>}

\* the pages handed to combine_results: with and without total and facets,
\* with no, one and two hits, and took_ms absent, small and u32::MAX
PagePool ==
    {[EmptyResults EXCEPT !.total = tf[1], !.facets = tf[2], !.hits = hs, !.took_ms = ms] :
        tf \in {<<None, None>>, <<Some(7), Some(NativeFacets)>>},
        hs \in {<<>>, <<Hit1>>, <<Hit2, Hit4>>},
        ms \in {None, Some(<<0, 5>>), Some(<<65535, 65535>>)}}

\* feature names: the four the estimate knows and one it does not
FeatureNames ==
    {"faceted_search", "highlighting", "streaming_search", "vector_search", "geo_search"}

Providers == {"elasticsearch", "opensearch", "typesense", "meilisearch", "algolia"}

InitFn ==
    /\ Idle
    /\ args \in
          {[fn |-> "FeatureSupport", self |-> s] : s \in FeatureSupport}
          \cup
          {[fn |-> "highlight_text", text |-> t, search_terms |-> ts,
            pre_tag |-> DefaultPreTag, post_tag |-> DefaultPostTag, max_length |-> ml] :
              t \in HighlightTexts, ts \in SeqsUpTo(HighlightTerms, MaxTerms),
              ml \in OptionOf({6})}
          \cup
          {[fn |-> "paginate_query", self |-> [page_size |-> ps, max_pages |-> mp],
            query |-> q] :
              ps \in 1..MaxPageSize, mp \in OptionOf(0..MaxPages),
              q \in {BaseQuery,
                     [BaseQuery EXCEPT !.q = Some(TextRust), !.facets = <<"category">>,
                                       !.page = Some(7), !.per_page = Some(9),
                                       !.offset = Some(4)]}}
          \cup
          {[fn |-> "combine_results", self |-> [page_size |-> ps, max_pages |-> None],
            page_results |-> prs] :
              ps \in 1..MaxPageSize, prs \in SeqsUpTo(PagePool, MaxPages)}
          \cup
          {[fn |-> "estimate_fallback_performance_impact",
            query |-> [BaseQuery EXCEPT !.facets = [i \in 1..n |-> "category"]],
            unsupported_features |-> fs] :
              n \in {0, 3, 4, 10, 11}, fs \in SeqsUpTo(FeatureNames, MaxFeatures)}
          \cup
          {[fn |-> "supports_feature", self |-> NewElasticSearchProvider, feature |-> f] :
              f \in DOMAIN elasticsearch_capability_matrix.core_capabilities
                    \cup DOMAIN elasticsearch_capability_matrix.advanced_features
                    \cup DOMAIN opensearch_capability_matrix.provider_specific
                    \cup {"nonexistent_feature"}}
          \cup
          {[fn |-> "capability_matrix", provider |-> p] : p \in Providers}
    /\ output = None
    /\ retry = None
    /\ stream = None
    /\ limiter = None

\* is_available(), is_native() and needs_fallback() of one FeatureSupport value
FeatureSupportPredicates ==
    /\ args.fn = "FeatureSupport"
    /\ IsNone(output)
    /\ output' = Some([is_available |-> is_available(args.self),
                    is_native |-> is_native(args.self),
                    needs_fallback |-> needs_fallback(args.self)])
    /\ UNCHANGED <<matrix, strategy, query, supported_features, results, results_before,
                   support, ret, trace, facets_out, calls, args,
                   retry, stream, limiter>>

\* one call of highlight_text; the value returned is [panic, snippets]
HighlightText ==
    /\ args.fn = "highlight_text"
    /\ IsNone(output)
    /\ output' = Some(highlight_text(args.text, args.search_terms, args.pre_tag,
                                     args.post_tag, args.max_length))
    /\ UNCHANGED <<matrix, strategy, query, supported_features, results, results_before,
                   support, ret, trace, facets_out, calls, args,
                   retry, stream, limiter>>

\* one call of paginate_query; the value returned is the list of queries
PaginateQuery ==
    /\ args.fn = "paginate_query"
    /\ IsNone(output)
    /\ output' = Some(paginate_query(args.self, args.query))
    /\ UNCHANGED <<matrix, strategy, query, supported_features, results, results_before,
                   support, ret, trace, facets_out, calls, args,
                   retry, stream, limiter>>

\* one call of combine_results in a build with or without overflow checks
CombineResults ==
    /\ args.fn = "combine_results"
    /\ IsNone(output)
    /\ \E overflow_checks \in BOOLEAN :
          output' = Some(combine_results(args.self, args.page_results, overflow_checks))
    /\ UNCHANGED <<matrix, strategy, query, supported_features, results, results_before,
                   support, ret, trace, facets_out, calls, args,
                   retry, stream, limiter>>

\* one call of estimate_fallback_performance_impact
EstimateFallbackPerformanceImpact ==
    /\ args.fn = "estimate_fallback_performance_impact"
    /\ IsNone(output)
    /\ output' = Some(estimate_fallback_performance_impact(args.query,
                                                           args.unsupported_features))
    /\ UNCHANGED <<matrix, strategy, query, supported_features, results, results_before,
                   support, ret, trace, facets_out, calls, args,
                   retry, stream, limiter>>

\* one call of supports_feature on the ElasticSearch provider
SupportsFeature ==
    /\ args.fn = "supports_feature"
    /\ IsNone(output)
    /\ output' = Some(supports_feature(args.self, args.feature))
    /\ UNCHANGED <<matrix, strategy, query, supported_features, results, results_before,
                   support, ret, trace, facets_out, calls, args,
                   retry, stream, limiter>>

\* one call of the matrix constructor of a provider
CapabilityMatrixOf ==
    /\ args.fn = "capability_matrix"
    /\ IsNone(output)
    /\ output' = Some(CASE args.provider = "elasticsearch" -> elasticsearch_capability_matrix
                        [] args.provider = "opensearch" -> opensearch_capability_matrix
                        [] args.provider = "typesense" -> typesense_capability_matrix
                        [] args.provider = "meilisearch" -> meilisearch_capability_matrix
                        [] args.provider = "algolia" -> algolia_capability_matrix)
    /\ UNCHANGED <<matrix, strategy, query, supported_features, results, results_before,
                   support, ret, trace, facets_out, calls, args,
                   retry, stream, limiter>>

NextFn ==
    \/ FeatureSupportPredicates
    \/ HighlightText
    \/ PaginateQuery
    \/ CombineResults
    \/ EstimateFallbackPerformanceImpact
    \/ SupportsFeature
    \/ CapabilityMatrixOf

SpecFn == InitFn /\ [][NextFn]_vars

(***************************************************************************)
(* SpecRetry: one run of retry_with_backoff, the operation answering each  *)
(* invocation with any result                                              *)
(***************************************************************************)
RetryConfigs ==
    {DefaultRetryConfig} \cup
    {[max_attempts |-> n, base_delay_ms |-> b, max_delay_ms |-> m,
      backoff_multiplier |-> [num |-> k, den |-> 2]] :
        n \in 0..MaxAttempts, b \in {1, 3}, m \in {2, 5}, k \in {1, 2, 3, 4}}

OperationResults ==
    {<<"Ok", "hits">>} \cup
    {<<"Err", e>> : e \in {<<"InvalidQuery", "empty">>, <<"Unsupported", "">>,
                           <<"Timeout", "">>, <<"Internal", "refused">>}}

InitRetry ==
    /\ Idle
    /\ args = None
    /\ output = None
    /\ retry \in {[config |-> c, pc |-> "attempt", attempt |-> 0,
                    delay_ms |-> c.base_delay_ms, last_error |-> None,
                    outcomes |-> <<>>, slept |-> <<>>, result |-> None] :
                       c \in RetryConfigs}
    /\ stream = None
    /\ limiter = None

\* one pass of the loop body up to its return or its next await: the operation
\* is invoked and answers o
RetryAttempt ==
    /\ retry.pc = "attempt"
    /\ retry.attempt < retry.config.max_attempts
    /\ \E o \in OperationResults :
          retry' =
             IF o[1] = "Ok"
             THEN [retry EXCEPT !.outcomes = Append(@, o), !.result = Some(o),
                                !.pc = "returned"]
             ELSE IF NotRetried(o[2])
             THEN [retry EXCEPT !.outcomes = Append(@, o), !.last_error = Some(o[2]),
                                !.result = Some(o), !.pc = "returned"]
             ELSE IF retry.attempt < retry.config.max_attempts - 1
             THEN [retry EXCEPT !.outcomes = Append(@, o), !.last_error = Some(o[2]),
                                !.pc = "sleep"]
             ELSE [retry EXCEPT !.outcomes = Append(@, o), !.last_error = Some(o[2]),
                                !.attempt = @ + 1]
    /\ UNCHANGED <<matrix, strategy, query, supported_features, results, results_before,
                   support, ret, trace, facets_out, calls, args, output, stream, limiter>>

\* the sleep of delay_ms and the new delay, then the next pass
RetrySleep ==
    /\ retry.pc = "sleep"
    /\ retry' = [retry EXCEPT
                    !.slept = Append(@, retry.delay_ms),
                    !.delay_ms = Min((retry.delay_ms * retry.config.backoff_multiplier.num)
                                        \div retry.config.backoff_multiplier.den,
                                     retry.config.max_delay_ms),
                    !.attempt = @ + 1,
                    !.pc = "attempt"]
    /\ UNCHANGED <<matrix, strategy, query, supported_features, results, results_before,
                   support, ret, trace, facets_out, calls, args, output, stream, limiter>>

\* the return after the loop
RetryGiveUp ==
    /\ retry.pc = "attempt"
    /\ retry.attempt >= retry.config.max_attempts
    /\ retry' = [retry EXCEPT
                    !.result = Some(<<"Err", IF IsSome(retry.last_error)
                                             THEN Unwrap(retry.last_error)
                                             ELSE <<"Internal", "Retry failed">>>>),
                    !.pc = "returned"]
    /\ UNCHANGED <<matrix, strategy, query, supported_features, results, results_before,
                   support, ret, trace, facets_out, calls, args, output, stream, limiter>>

NextRetry ==
    \/ RetryAttempt
    \/ RetrySleep
    \/ RetryGiveUp

SpecRetry == InitRetry /\ [][NextRetry]_vars

(***************************************************************************)
(* SpecStream: a SearchHitStream, its producer and the caller of           *)
(* next_batch                                                              *)
(***************************************************************************)
\* the page numbers a query starts from, the last of them u32::MAX
StartPages == {None, Some(<<0, 1>>), Some(<<65535, 65535>>)}

\* a stream of new() with the Sender in other hands, or from_paginated(query,
\* page_size, fetch_page) in a build with or without overflow checks
InitStream ==
    /\ Idle
    /\ args = None
    /\ output = None
    /\ retry = None
    /\ limiter = None
    /\ stream \in {NewStream} \cup
          {[from_paginated([page |-> p, per_page |-> pp], page_size)
               EXCEPT !.overflow_checks = oc] :
              p \in StartPages, pp \in {None, Some(0), Some(1)},
              page_size \in 1..MaxPageHits, oc \in BOOLEAN}

\* the holder of the Sender sends a hit or an error
SenderSend ==
    /\ stream.producer.pc = "sender"
    /\ stream.sender /\ stream.receiver
    /\ Len(stream.channel) < ChannelCapacity
    /\ stream.sent + stream.errors < MaxItems
    /\ \/ stream' = [stream EXCEPT !.channel = Append(@, <<"Ok", stream.sent + 1>>),
                                   !.sent = @ + 1]
       \/ stream' = [stream EXCEPT !.channel = Append(@, <<"Err", <<"Timeout", "">>>>),
                                   !.errors = @ + 1]
    /\ UNCHANGED <<matrix, strategy, query, supported_features, results, results_before,
                   support, ret, trace, facets_out, calls, args, output, retry, limiter>>

\* the holder of the Sender drops it
SenderDrop ==
    /\ stream.producer.pc = "sender"
    /\ stream.sender
    /\ stream' = [stream EXCEPT !.sender = FALSE]
    /\ UNCHANGED <<matrix, strategy, query, supported_features, results, results_before,
                   support, ret, trace, facets_out, calls, args, output, retry, limiter>>

\* one turn of the loop of from_paginated up to its first send: fetch_page
\* answers with n hits or with an error
FetchPage ==
    /\ stream.producer.pc = "fetch"
    /\ Len(stream.fetched) < MaxFetches
    /\ \/ \E n \in 0..MaxPageHits :
            LET Fetched(st) == IF n = 0 THEN AfterPage(st) ELSE st
            IN stream' = Fetched(
                   [stream EXCEPT
                       !.producer.pc = "send",
                       !.producer.has_more = (n = stream.producer.per_page),
                       !.producer.pending = [i \in 1..n |-> <<"Ok", stream.sent + i>>],
                       !.sent = @ + n,
                       !.fetched = Append(@, [page |-> stream.producer.page, hits |-> n])])
       \/ stream' = [stream EXCEPT
                        !.producer.pc = "send",
                        !.producer.has_more = FALSE,
                        !.producer.pending = << <<"Err", <<"Timeout", "">>>> >>,
                        !.fetched = Append(@, [page |-> stream.producer.page, hits |-> -1])]
    /\ UNCHANGED <<matrix, strategy, query, supported_features, results, results_before,
                   support, ret, trace, facets_out, calls, args, output, retry, limiter>>

\* sender.send(item).await of from_paginated, and what follows the last one
SendItem ==
    /\ stream.producer.pc = "send"
    /\ ~stream.receiver \/ Len(stream.channel) < ChannelCapacity
    /\ LET Sent(st) == IF Len(stream.producer.pending) = 1 THEN AfterPage(st) ELSE st
       IN stream' =
             IF ~stream.receiver THEN TaskEnded(stream, "done")
             ELSE Sent([stream EXCEPT !.channel = Append(@, Head(stream.producer.pending)),
                                      !.producer.pending = Tail(@)])
    /\ UNCHANGED <<matrix, strategy, query, supported_features, results, results_before,
                   support, ret, trace, facets_out, calls, args, output, retry, limiter>>

\* next_batch(size) up to its first receiver.recv().await
NextBatch ==
    /\ stream.consumer.pc = "idle"
    /\ Len(stream.returned) < MaxBatches
    /\ \E size \in 0..MaxBatchSize :
          LET taken == Min(size, Len(stream.buffer))
              batch == SubSeq(stream.buffer, 1, taken)
              drained == [stream EXCEPT !.buffer = SubSeq(@, taken + 1, Len(@))]
          IN stream' =
                IF stream.finished /\ stream.buffer = <<>>
                THEN ReturnedBatch(stream, size, <<>>, TRUE)
                ELSE IF Len(batch) < size /\ ~stream.finished
                THEN [drained EXCEPT !.consumer = [pc |-> "recv", size |-> size, batch |-> batch]]
                ELSE ReturnedBatch(drained, size, batch, stream.finished)
    /\ UNCHANGED <<matrix, strategy, query, supported_features, results, results_before,
                   support, ret, trace, facets_out, calls, args, output, retry, limiter>>

\* receiver.recv().await answers: a hit, an error, or None when the channel
\* is empty and the Sender is dropped
Recv ==
    /\ stream.consumer.pc = "recv"
    /\ stream.channel /= <<>> \/ ~stream.sender
    /\ LET c == stream.consumer
           Pushed(batch, st) ==
               IF Len(batch) < c.size THEN [st EXCEPT !.consumer.batch = batch]
               ELSE ReturnedBatch(st, c.size, batch, FALSE)
       IN stream' =
             IF stream.channel = <<>>
             THEN ReturnedBatch([stream EXCEPT !.finished = TRUE], c.size, c.batch, FALSE)
             ELSE IF Head(stream.channel)[1] = "Err"
             THEN ReturnedBatch([stream EXCEPT !.finished = TRUE, !.channel = Tail(@)],
                                c.size, c.batch, FALSE)
             ELSE Pushed(Append(c.batch, Head(stream.channel)[2]),
                         [stream EXCEPT !.channel = Tail(@)])
    /\ UNCHANGED <<matrix, strategy, query, supported_features, results, results_before,
                   support, ret, trace, facets_out, calls, args, output, retry, limiter>>

\* the caller drops the stream, and the Receiver with it
DropStream ==
    /\ stream.consumer.pc = "idle"
    /\ stream.receiver
    /\ stream' = [stream EXCEPT !.receiver = FALSE, !.consumer.pc = "dropped",
                               !.channel = <<>>]
    /\ UNCHANGED <<matrix, strategy, query, supported_features, results, results_before,
                   support, ret, trace, facets_out, calls, args, output, retry, limiter>>

NextStream ==
    \/ SenderSend
    \/ SenderDrop
    \/ FetchPage
    \/ SendItem
    \/ NextBatch
    \/ Recv
    \/ DropStream

SpecStream == InitStream /\ [][NextStream]_vars

(***************************************************************************)
(* SpecLimiter: threads calling try_acquire on one RateLimiter while the   *)
(* clock advances                                                          *)
(***************************************************************************)
Threads == 1..MaxThreads

\* RateLimiter::new(max_permits, refill_rate), in a build with or without
\* overflow checks
InitLimiter ==
    /\ Idle
    /\ args = None
    /\ output = None
    /\ retry = None
    /\ stream = None
    /\ limiter \in
          {[max_permits |-> mp, refill_rate |-> rr, overflow_checks |-> oc,
            permits |-> mp, last_refill |-> 0, clock |-> 0,
            lock |-> [m \in {"last_refill", "permits"} |-> 0],
            poisoned |-> [m \in {"last_refill", "permits"} |-> FALSE],
            threads |-> [t \in Threads |->
                           [pc |-> "idle", now |-> 0, to_add |-> <<0, 0>>, result |-> None]],
            started |-> 0, ticks |-> 0, refilled |-> FALSE, at_refill |-> mp, granted |-> 0] :
              mp \in {1, 2}, rr \in {1, 65535, 65536}, oc \in BOOLEAN}

\* time passes: a tick, a second, or a long idle period
Tick ==
    /\ limiter.ticks < MaxTicks
    /\ \E d \in {1, TicksPerSecond, 65536 * TicksPerSecond} :
          limiter' = [limiter EXCEPT !.clock = @ + d, !.ticks = @ + 1]
    /\ UNCHANGED <<matrix, strategy, query, supported_features, results, results_before,
                   support, ret, trace, facets_out, calls, args, output, retry, stream>>

\* try_acquire is called; refill_permits reads the clock
ReadClock(t) ==
    /\ limiter.threads[t].pc = "idle"
    /\ limiter.started < MaxAcquires
    /\ limiter' = [limiter EXCEPT
                      !.threads[t] = [pc |-> "lock_last_refill", now |-> limiter.clock,
                                      to_add |-> <<0, 0>>, result |-> None],
                      !.started = @ + 1]
    /\ UNCHANGED <<matrix, strategy, query, supported_features, results, results_before,
                   support, ret, trace, facets_out, calls, args, output, retry, stream>>

\* self.last_refill.lock().unwrap(), the test of elapsed and permits_to_add
LockLastRefill(t) ==
    /\ limiter.threads[t].pc = "lock_last_refill"
    /\ limiter.lock["last_refill"] = 0
    /\ LET secs == as_secs(duration_since(limiter.threads[t].now, limiter.last_refill))
           held == [limiter EXCEPT !.lock["last_refill"] = t]
           Multiplied(product) ==
               IF product.overflow /\ limiter.overflow_checks
               THEN Panicked(held, t)
               ELSE [held EXCEPT !.threads[t].pc = "refill_lock_permits",
                                 !.threads[t].to_add = product.value]
       IN limiter' =
             IF limiter.poisoned["last_refill"] THEN Panicked(limiter, t)
             ELSE IF secs >= 1
             THEN Multiplied(MulU32(limiter.refill_rate, <<secs \div 65536, secs % 65536>>))
             ELSE [limiter EXCEPT !.threads[t].pc = "lock_permits"]
    /\ UNCHANGED <<matrix, strategy, query, supported_features, results, results_before,
                   support, ret, trace, facets_out, calls, args, output, retry, stream>>

\* self.permits.lock().unwrap() inside refill_permits, last_refill still held
RefillLockPermits(t) ==
    /\ limiter.threads[t].pc = "refill_lock_permits"
    /\ limiter.lock["permits"] = 0
    /\ limiter' =
          IF limiter.poisoned["permits"] THEN Panicked(limiter, t)
          ELSE [limiter EXCEPT !.lock["permits"] = t, !.threads[t].pc = "refill"]
    /\ UNCHANGED <<matrix, strategy, query, supported_features, results, results_before,
                   support, ret, trace, facets_out, calls, args, output, retry, stream>>

\* *permits = min(*permits + permits_to_add, max_permits); *last_refill = now;
\* both guards are dropped
Refill(t) ==
    /\ limiter.threads[t].pc = "refill"
    /\ LET Added(sum) ==
               IF sum.overflow /\ limiter.overflow_checks
               THEN Panicked(limiter, t)
               ELSE [limiter EXCEPT
                        !.permits = CappedSum(sum.value, limiter.max_permits),
                        !.last_refill = limiter.threads[t].now,
                        !.lock = [m \in DOMAIN limiter.lock |-> 0],
                        !.threads[t].pc = "lock_permits",
                        !.refilled = TRUE,
                        !.at_refill = CappedSum(sum.value, limiter.max_permits),
                        !.granted = 0]
       IN limiter' = Added(AddU32(<<limiter.permits \div 65536, limiter.permits % 65536>>,
                                  limiter.threads[t].to_add))
    /\ UNCHANGED <<matrix, strategy, query, supported_features, results, results_before,
                   support, ret, trace, facets_out, calls, args, output, retry, stream>>

\* self.permits.lock().unwrap() in try_acquire
LockPermits(t) ==
    /\ limiter.threads[t].pc = "lock_permits"
    /\ limiter.lock["permits"] = 0
    /\ limiter' =
          IF limiter.poisoned["permits"] THEN Panicked(limiter, t)
          ELSE [limiter EXCEPT !.lock["permits"] = t, !.threads[t].pc = "take"]
    /\ UNCHANGED <<matrix, strategy, query, supported_features, results, results_before,
                   support, ret, trace, facets_out, calls, args, output, retry, stream>>

\* the test of *permits, the decrement, and the return of try_acquire
TakePermit(t) ==
    /\ limiter.threads[t].pc = "take"
    /\ limiter' =
          IF limiter.permits > 0
          THEN [limiter EXCEPT !.permits = @ - 1, !.granted = @ + 1,
                               !.lock["permits"] = 0,
                               !.threads[t] = [pc |-> "idle", now |-> 0, to_add |-> <<0, 0>>,
                                               result |-> Some(TRUE)]]
          ELSE [limiter EXCEPT !.lock["permits"] = 0,
                               !.threads[t] = [pc |-> "idle", now |-> 0, to_add |-> <<0, 0>>,
                                               result |-> Some(FALSE)]]
    /\ UNCHANGED <<matrix, strategy, query, supported_features, results, results_before,
                   support, ret, trace, facets_out, calls, args, output, retry, stream>>

NextLimiter ==
    \/ Tick
    \/ \E t \in Threads : ReadClock(t)
    \/ \E t \in Threads : LockLastRefill(t)
    \/ \E t \in Threads : RefillLockPermits(t)
    \/ \E t \in Threads : Refill(t)
    \/ \E t \in Threads : LockPermits(t)
    \/ \E t \in Threads : TakePermit(t)

SpecLimiter == InitLimiter /\ [][NextLimiter]_vars

(***************************************************************************)
(* Properties of check_query_support (SpecCheck)                           *)
(***************************************************************************)
FacetsRequested == query.facets /= <<>>
HighlightRequested == IsSome(query.highlight)
UnsupportedOrEmulated == {"Unsupported", "Emulated"}

OnlyPerformanceIssues(r) ==
    /\ r.issues /= <<>>
    /\ \A i \in DOMAIN r.issues : r.issues[i].kind = "PerformanceLimit"

\* C1: requires_fallback is true exactly when facets are requested and
\* faceted_search is Unsupported or Emulated, or highlighting is requested and
\* highlighting is Unsupported or Emulated; a result whose only issues are
\* PerformanceLimit issues is not fully supported and requires no fallback.
C1_RequiresFallback ==
    IsSome(support) =>
        LET r == Unwrap(support) IN
        /\ r.requires_fallback <=>
              \/ FacetsRequested
                 /\ matrix.advanced_features.faceted_search \in UnsupportedOrEmulated
              \/ HighlightRequested
                 /\ matrix.advanced_features.highlighting \in UnsupportedOrEmulated
        /\ OnlyPerformanceIssues(r) => ~r.is_fully_supported /\ ~r.requires_fallback

C1_Witness ==
    /\ IsSome(support)
    /\ OnlyPerformanceIssues(Unwrap(support))
    /\ ~Unwrap(support).requires_fallback
    /\ IsSome(query.per_page)
    /\ Unwrap(query.per_page) > 2

\* the limits as the checker measures them: per_page, the byte length of the
\* query text and the number of filters
ExceedsNoLimit ==
    LET lim == matrix.performance_limits IN
    /\ ~(IsSome(query.per_page) /\ IsSome(lim.max_results_per_page)
         /\ Unwrap(query.per_page) > Unwrap(lim.max_results_per_page))
    /\ ~(IsSome(query.q) /\ IsSome(lim.max_query_length)
         /\ ByteLen(Unwrap(query.q)) > Unwrap(lim.max_query_length))
    /\ ~(IsSome(lim.max_filters) /\ Len(query.filters) > Unwrap(lim.max_filters))

\* C2: is_fully_supported is true if and only if the issue list is empty; a
\* query that requests facets and/or highlighting where the requested
\* features are Native, and that exceeds no performance limit, is fully
\* supported, has no issue and requires no fallback.
C2_FullySupported ==
    IsSome(support) =>
        LET r == Unwrap(support) IN
        /\ r.is_fully_supported <=> (r.issues = <<>>)
        /\ ( /\ FacetsRequested \/ HighlightRequested
             /\ FacetsRequested => matrix.advanced_features.faceted_search = "Native"
             /\ HighlightRequested => matrix.advanced_features.highlighting = "Native"
             /\ ExceedsNoLimit )
           => r.is_fully_supported /\ r.issues = <<>> /\ ~r.requires_fallback

C2_Witness ==
    /\ IsSome(support)
    /\ FacetsRequested
    /\ HighlightRequested
    /\ IsSome(query.per_page)
    /\ IsSome(matrix.performance_limits.max_results_per_page)
    /\ Unwrap(support).is_fully_supported

\* the issues of a result that name the given feature
FeatureIssues(r, feature) ==
    SelectSeq(r.issues,
              LAMBDA i : i.kind /= "PerformanceLimit" /\ i.feature = feature)

\* the issue kind that belongs to a support level ("" for none)
IssueKindOf(level) ==
    CASE level = "Native" -> ""
      [] level = "Limited" -> "LimitedSupport"
      [] level = "Unsupported" -> "UnsupportedFeature"
      [] level = "Emulated" -> "RequiresFallback"
      [] level = "Conditional" -> "ConditionalSupport"

\* the issues about a feature are those its support level determines
FeatureIssueMatches(r, feature, requested, level, policy) ==
    LET fi == FeatureIssues(r, feature) IN
    IF ~requested \/ level = "Native" THEN fi = <<>>
    ELSE /\ Len(fi) = 1
         /\ fi[1].kind = IssueKindOf(level)
         /\ fi[1].feature = feature
         /\ level = "Unsupported" => fi[1].fallback = policy

\* C3: a requested feature yields exactly the issue of its support level
\* (none for Native, LimitedSupport, UnsupportedFeature carrying the string
\* form of the feature's own fallback policy, RequiresFallback,
\* ConditionalSupport), named "faceted_search" resp. "highlighting"; a feature
\* that is not requested yields no issue.
C3_FeatureIssues ==
    IsSome(support) =>
        LET r == Unwrap(support) IN
        /\ FeatureIssueMatches(r, "faceted_search", FacetsRequested,
                               matrix.advanced_features.faceted_search,
                               strategy.facet_fallback)
        /\ FeatureIssueMatches(r, "highlighting", HighlightRequested,
                               matrix.advanced_features.highlighting,
                               strategy.highlight_fallback)
        /\ \A i \in DOMAIN r.issues :
              r.issues[i].kind /= "PerformanceLimit"
                 => r.issues[i].feature \in {"faceted_search", "highlighting"}

C3_Witness ==
    /\ IsSome(support)
    /\ FacetsRequested
    /\ HighlightRequested
    /\ matrix.advanced_features.faceted_search = "Emulated"
    /\ matrix.advanced_features.highlighting = "Unsupported"
    /\ strategy.facet_fallback /= strategy.highlight_fallback
    /\ Len(Unwrap(support).issues) >= 2

\* the PerformanceLimit issues of a result about the given parameter
PerformanceIssues(r, parameter) ==
    SelectSeq(r.issues,
              LAMBDA i : i.kind = "PerformanceLimit" /\ i.parameter = parameter)

RECURSIVE DecimalValue(_)
\* the number a string of decimal digits denotes
DecimalValue(s) ==
    IF s = <<>> THEN 0
    ELSE 10 * DecimalValue(SubSeq(s, 1, Len(s) - 1))
            + (CHOOSE d \in 0..9 : AsciiDigit[d + 1] = s[Len(s)])

\* s is the decimal form of n: digits only, no leading zero
IsDecimalOf(s, n) ==
    /\ s /= <<>>
    /\ \A i \in DOMAIN s : s[i] \in Range(AsciiDigit)
    /\ Len(s) > 1 => s[1] /= "0"
    /\ DecimalValue(s) = n

\* exactly one issue about the parameter, carrying both values, when the
\* requested value is set and strictly above a set limit; none otherwise
LimitIssueMatches(r, parameter, is_set, requested, limit) ==
    LET pi == PerformanceIssues(r, parameter) IN
    IF is_set /\ IsSome(limit) /\ requested > Unwrap(limit)
    THEN /\ Len(pi) = 1
         /\ IsDecimalOf(pi[1].requested, requested)
         /\ IsDecimalOf(pi[1].limit, Unwrap(limit))
    ELSE pi = <<>>

\* C11: a PerformanceLimit issue with parameter "per_page" is present if and
\* only if query.per_page is set, max_results_per_page is set and per_page is
\* strictly greater than the limit; it carries the requested and the limit
\* value as decimal strings.  The same holds for "filter_count" with the
\* number of filters against max_filters.
C11_PerPageAndFilterCount ==
    IsSome(support) =>
        LET r == Unwrap(support) IN
        /\ LimitIssueMatches(r, "per_page", IsSome(query.per_page),
                             IF IsSome(query.per_page) THEN Unwrap(query.per_page) ELSE 0,
                             matrix.performance_limits.max_results_per_page)
        /\ LimitIssueMatches(r, "filter_count", TRUE, Len(query.filters),
                             matrix.performance_limits.max_filters)

C11_Witness ==
    /\ IsSome(support)
    /\ query.per_page = Some(12)
    /\ matrix.performance_limits.max_results_per_page = Some(2)
    /\ Len(query.filters) = 2
    /\ matrix.performance_limits.max_filters = Some(1)
    /\ PerformanceIssues(Unwrap(support), "per_page") =
          <<[kind |-> "PerformanceLimit", parameter |-> "per_page",
             requested |-> <<"1", "2">>, limit |-> <<"2">>]>>
    /\ Len(PerformanceIssues(Unwrap(support), "filter_count")) = 1

\* C12: a PerformanceLimit issue with parameter "query_length" is present if
\* and only if query.q is set, max_query_length is set and the number of
\* characters of the query text exceeds the limit.
C12_QueryLengthInChars ==
    IsSome(support) =>
        LET lim == matrix.performance_limits.max_query_length IN
        (PerformanceIssues(Unwrap(support), "query_length") /= <<>>)
            <=> ( /\ IsSome(query.q)
                  /\ IsSome(lim)
                  /\ CharLen(Unwrap(query.q)) > Unwrap(lim) )

\* C23: the issues check_query_support returns are in the order of the steps
\* faceted_search, highlighting, per_page, query_length, filter_count, each
\* step giving at most one issue: at most 5 issues, and never two for the same
\* feature or parameter.
C23_IssueOrder ==
    IsSome(support) =>
        LET issues == Unwrap(support).issues
            StepOrder == <<"faceted_search", "highlighting", "per_page", "query_length",
                           "filter_count">>
            Subject(issue) == IF issue.kind = "PerformanceLimit" THEN issue.parameter
                              ELSE issue.feature
        IN /\ Len(issues) <= 5
           /\ \A i \in DOMAIN issues : Subject(issues[i]) \in Range(StepOrder)
           /\ \A i, j \in DOMAIN issues :
                 i < j => IndexIn(StepOrder, Subject(issues[i]))
                            < IndexIn(StepOrder, Subject(issues[j]))
C23_Witness ==
    /\ IsSome(support)
    /\ Len(Unwrap(support).issues) = 5
    /\ Unwrap(support).issues[1].kind = "ConditionalSupport"
    /\ Unwrap(support).issues[2].kind = "UnsupportedFeature"

(***************************************************************************)
(* Properties of process_search_results (Spec)                             *)
(***************************************************************************)
Called == calls > 0
Entered(step) == \E i \in DOMAIN trace : trace[i] = step

\* the support level the feature map gives, an absent key being Unsupported
GivenSupport(name) ==
    IF name \in DOMAIN supported_features THEN supported_features[name] ELSE "Unsupported"

FacetFallbackDue == FacetsRequested /\ GivenSupport("faceted_search") \in UnsupportedOrEmulated
HighlightFallbackDue ==
    HighlightRequested /\ GivenSupport("highlighting") \in UnsupportedOrEmulated
FacetFallbackFails == FacetFallbackDue /\ strategy.facet_fallback = "Error"

HighlightsOf(res) == [i \in DOMAIN res.hits |-> res.hits[i].highlights]

\* C4: in strict mode a requested feature that the provider does not support
\* makes process_search_results return an error, whatever the fallback
\* policies are.
C4_StrictModeErrors ==
    ( /\ Called
      /\ strategy.strict_mode
      /\ \/ FacetsRequested /\ GivenSupport("faceted_search") = "Unsupported"
         \/ HighlightRequested /\ GivenSupport("highlighting") = "Unsupported" )
    => ret = "Unsupported"

\* the feature gates leave what they do not touch: facets when the facet
\* fallback is not due, the hits' highlights when the highlight fallback is not due
C5_Frame ==
    /\ ~FacetFallbackDue => results.facets = results_before.facets
    /\ ~HighlightFallbackDue => HighlightsOf(results) = HighlightsOf(results_before)

\* C5 as stated: each fallback is applied if and only if its feature is
\* requested and Unsupported or Emulated (absent key = Unsupported).
C5_FallbackIffDue ==
    Called =>
        /\ Entered("apply_facet_fallback") <=> FacetFallbackDue
        /\ Entered("apply_highlight_fallback") <=> HighlightFallbackDue
        /\ C5_Frame

\* C5 amended: the facet fallback is applied if and only if facets are
\* requested and faceted_search is Unsupported or Emulated (absent key =
\* Unsupported); the highlight fallback is applied if and only if highlighting
\* is requested and Unsupported or Emulated and the facet fallback has not
\* failed; a fallback that is not due leaves facets, resp. every hit's
\* highlights, as they were.
C5_FallbackIffDueAndReached ==
    Called =>
        /\ Entered("apply_facet_fallback") <=> FacetFallbackDue
        /\ Entered("apply_highlight_fallback") <=> (HighlightFallbackDue /\ ~FacetFallbackFails)
        /\ C5_Frame

C5_Witness ==
    /\ Called
    /\ "faceted_search" \notin DOMAIN supported_features
    /\ GivenSupport("highlighting") = "Emulated"
    /\ Entered("apply_facet_fallback")
    /\ Entered("apply_highlight_fallback")
    /\ results.facets /= results_before.facets
    /\ HighlightsOf(results) /= HighlightsOf(results_before)

\* C6 as stated: after every call that returns, with Ok or with an error,
\* total and took_ms are present.
C6_AlwaysPostProcessed ==
    (Called /\ ret /= "Panic") => IsSome(results.total) /\ IsSome(results.took_ms)

\* C6 amended: every call that returns Ok has applied post-processing: total
\* is present (the number of hits if it was absent), took_ms is present (0 if
\* it was absent) and values that were present are unchanged; a call that
\* does not return Ok leaves total and took_ms as they were.
C6_PostProcessedOnOk ==
    Called =>
        /\ ret = "Ok" =>
              /\ results.total = IF IsSome(results_before.total)
                                 THEN results_before.total
                                 ELSE Some(Len(results_before.hits))
              /\ results.took_ms = IF IsSome(results_before.took_ms)
                                   THEN results_before.took_ms ELSE Some(0)
        /\ ret /= "Ok" =>
              /\ results.total = results_before.total
              /\ results.took_ms = results_before.took_ms

C6_Witness ==
    /\ Called
    /\ ret = "Ok"
    /\ Entered("apply_facet_fallback")
    /\ IsNone(results_before.total)
    /\ IsSome(results_before.took_ms)
    /\ results.total = Some(1)
    /\ results.took_ms = results_before.took_ms

\* C7 as stated: facets that are present before the call are the same after it.
C7_PresentFacetsKept ==
    (Called /\ IsSome(results_before.facets)) => results.facets = results_before.facets

\* C7 amended: results.facets changes only when the facet fallback is due with
\* a policy other than Error, and it is then overwritten whether or not it
\* was present (by "{}" under Empty and SeparateQueries, by the computed
\* facets under ClientSide); otherwise it has the same value after the call.
C7_FacetsWrittenByFallback ==
    Called =>
        /\ (~FacetFallbackDue \/ strategy.facet_fallback = "Error")
              => results.facets = results_before.facets
        /\ (FacetFallbackDue /\ strategy.facet_fallback \in {"Empty", "SeparateQueries"})
              => results.facets = Some(EmptyObjectText)
        /\ (FacetFallbackDue /\ strategy.facet_fallback = "ClientSide")
              => results.facets =
                    Some(FacetsToJson(compute_client_side_facets(results_before.hits,
                                                                 query.facets)))

C7_Witness ==
    /\ Called
    /\ IsSome(results_before.facets)
    /\ FacetFallbackDue
    /\ strategy.facet_fallback = "ClientSide"
    /\ results.hits /= <<>>
    /\ results.facets /= results_before.facets

\* C9: a due facet fallback whose policy is Error makes the call return
\* Unsupported and leaves results exactly as before the call; an entered
\* highlight fallback whose policy is Error makes the call return Unsupported
\* without post-processing (total and took_ms as before the call).
C9_ErrorPolicyFails ==
    Called =>
        /\ FacetFallbackFails =>
              /\ ret = "Unsupported"
              /\ results = results_before
              /\ trace = <<"apply_facet_fallback">>
        /\ (Entered("apply_highlight_fallback") /\ strategy.highlight_fallback = "Error") =>
              /\ ret = "Unsupported"
              /\ ~Entered("apply_post_processing")
              /\ results.hits = results_before.hits
              /\ results.total = results_before.total
              /\ results.took_ms = results_before.took_ms

C9_Witness ==
    /\ Called
    /\ FacetFallbackFails
    /\ HighlightFallbackDue
    /\ strategy.highlight_fallback = "None"
    /\ \E i \in DOMAIN results.hits : IsSome(results.hits[i].highlights)
    /\ IsNone(results.total)
    /\ ret = "Unsupported"

\* C10: when the facet fallback has written results.facets and the highlight
\* fallback then fails, the call returns the error and results.facets keeps
\* the value the facet fallback wrote.
C10_NoRollback ==
    ( /\ Called
      /\ trace = <<"apply_facet_fallback", "apply_highlight_fallback">>
      /\ ret = "Unsupported" )
    => /\ strategy.facet_fallback \in {"Empty", "SeparateQueries"}
            => results.facets = Some(EmptyObjectText)
       /\ strategy.facet_fallback = "ClientSide"
            => results.facets =
                  Some(FacetsToJson(compute_client_side_facets(results_before.hits,
                                                               query.facets)))
       /\ strategy.facet_fallback /= "Error"

C10_Witness ==
    /\ Called
    /\ trace = <<"apply_facet_fallback", "apply_highlight_fallback">>
    /\ ret = "Unsupported"
    /\ IsSome(results_before.facets)
    /\ results.facets /= results_before.facets

\* what the same call returns under the Empty facet policy
UnderEmptyPolicy ==
    process_search_results([strategy EXCEPT !.facet_fallback = "Empty"],
                           results_before, query, supported_features)

\* C14 as stated: a facet fallback triggered under Empty sets results.facets
\* to "{}" and process_search_results succeeds; under SeparateQueries the
\* return value and the final results are those of Empty for the same inputs.
C14_EmptyFacetsAndSuccess ==
    Called =>
        /\ ( /\ Entered("apply_facet_fallback")
             /\ strategy.facet_fallback = "Empty"
             /\ ret /= "Panic" )
              => results.facets = Some(EmptyObjectText) /\ ret = "Ok"
        /\ strategy.facet_fallback = "SeparateQueries"
              => ret = UnderEmptyPolicy.ret /\ results = UnderEmptyPolicy.results

\* C14, amended: a facet fallback triggered under Empty sets results.facets to
\* "{}" and does not fail: the call goes on to the highlighting block, and
\* only a due highlight fallback can make it fail; under SeparateQueries the
\* return value and the final results are those of Empty for the same inputs.
C14_EmptyFacetsThenHighlighting ==
    Called =>
        /\ (Entered("apply_facet_fallback") /\ strategy.facet_fallback = "Empty")
              => /\ results.facets = Some(EmptyObjectText)
                 /\ ret = "Ok" \/ Entered("apply_highlight_fallback")
                 /\ ret = "Ok" <=> Entered("apply_post_processing")
        /\ strategy.facet_fallback = "SeparateQueries"
              => ret = UnderEmptyPolicy.ret /\ results = UnderEmptyPolicy.results

C14_Witness ==
    /\ Called
    /\ strategy.facet_fallback = "SeparateQueries"
    /\ Entered("apply_facet_fallback")
    /\ results_before.facets = Some(NativeFacets)
    /\ results.facets = Some(EmptyObjectText)
    /\ ret = "Ok"

\* the field -> snippets map the client-side pass produces for a hit
\* (empty when the hit has no content or its content is not JSON)
ClientSideHighlights(hit) ==
    LET cfg == Unwrap(query.highlight)
        parsed == IF IsSome(hit.content) THEN from_str(Unwrap(hit.content)) ELSE None
    IN IF IsNone(parsed) THEN <<>>
       ELSE generate_highlights(Unwrap(parsed), cfg.fields, extract_search_terms(query),
                                IF IsSome(cfg.pre_tag) THEN Unwrap(cfg.pre_tag)
                                ELSE DefaultPreTag,
                                IF IsSome(cfg.post_tag) THEN Unwrap(cfg.post_tag)
                                ELSE DefaultPostTag,
                                cfg.max_length).highlights

\* C15: under ClientSide a hit's highlights field is assigned only when the
\* client-side pass produced at least one snippet for that hit, and is left
\* as it was otherwise (absent stays absent, a native highlight is kept);
\* under None a triggered highlight fallback clears highlights on every hit.
C15_HighlightsOnlyWithSnippets ==
    (Called /\ Entered("apply_highlight_fallback")) =>
        /\ Len(results.hits) = Len(results_before.hits)
        /\ (strategy.highlight_fallback = "ClientSide" /\ ret = "Ok") =>
              \A i \in DOMAIN results.hits :
                 LET before == results_before.hits[i].highlights
                     after == results.hits[i].highlights
                     found == ClientSideHighlights(results_before.hits[i])
                 IN /\ found = <<>> => after = before
                    /\ found /= <<>> => after = Some(HighlightsToJson(found))
                    /\ after /= Some(HighlightsToJson(<<>>))
        /\ strategy.highlight_fallback = "None" =>
              /\ ret = "Ok"
              /\ \A i \in DOMAIN results.hits : results.hits[i].highlights = None

C15_Witness ==
    /\ Called
    /\ Entered("apply_highlight_fallback")
    /\ strategy.highlight_fallback = "ClientSide"
    /\ ret = "Ok"
    /\ results_before.hits = <<Hit4>>
    /\ results.hits[1].highlights = None

\* what a call may not touch: the hits but for their highlights, page and per_page
HitsAndPagingKept ==
    Called =>
        /\ Len(results.hits) = Len(results_before.hits)
        /\ \A i \in DOMAIN results.hits :
              /\ results.hits[i].id = results_before.hits[i].id
              /\ results.hits[i].score = results_before.hits[i].score
              /\ results.hits[i].content = results_before.hits[i].content
        /\ results.page = results_before.page
        /\ results.per_page = results_before.per_page
C21_Idempotent ==
    /\ (calls >= 2 /\ ~FacetFallbackDue /\ ~HighlightFallbackDue) =>
          /\ ret = "Ok"
          /\ results = results_before
    /\ Called =>
          /\ IsSome(results_before.total) => results.total = results_before.total
          /\ IsSome(results_before.took_ms) => results.took_ms = results_before.took_ms
C21_Witness ==
    /\ calls = 3
    /\ FacetsRequested /\ GivenSupport("faceted_search") = "Native"
    /\ HighlightRequested /\ GivenSupport("highlighting") = "Native"
    /\ results.hits /= <<>>
    /\ results.total = Some(Len(results.hits))
    /\ results.took_ms = Some(0)
    /\ results = results_before

(***************************************************************************)
(* Properties of the check and the processing together (SpecAgree)         *)
(***************************************************************************)
\* C27: for the same matrix, strategy and query, check_query_support reports
\* requires_fallback = true exactly when process_search_results, given the
\* feature map built from the matrix, invokes the facet fallback or the
\* highlight fallback.
C27_CheckAgreesWithProcessing ==
    (IsSome(support) /\ Called) =>
        (Unwrap(support).requires_fallback
            <=> (Entered("apply_facet_fallback") \/ Entered("apply_highlight_fallback")))
C27_Witness ==
    /\ IsSome(support)
    /\ Called
    /\ Unwrap(support).requires_fallback
    /\ FacetsRequested /\ HighlightRequested
    /\ matrix.advanced_features.faceted_search = "Emulated"
    /\ matrix.advanced_features.highlighting = "Unsupported"
    /\ strategy.facet_fallback = "Error"
    /\ ret = "Unsupported"
    /\ trace = <<"apply_facet_fallback">>

(***************************************************************************)
(* Properties of compute_client_side_facets (SpecFacets)                   *)
(***************************************************************************)
\* the string form of a value: a string as it is, any other value by its
\* JSON rendering
StringForm(val) == IF JTag(val) = "String" THEN JVal(val) ELSE JsonDisplay(val)

\* the values a hit contributes to a field: none when its content is absent,
\* is not JSON or has no such member, the elements of an array, else the value
ContributedValues(hit, field) ==
    IF IsNone(hit.content) \/ ~Unwrap(hit.content).valid THEN <<>>
    ELSE LET doc == Unwrap(hit.content).doc IN
         IF JTag(doc) /= "Object" THEN <<>>
         ELSE IF field \notin DOMAIN JVal(doc) THEN <<>>
         ELSE IF JTag(JVal(doc)[field]) = "Array" THEN JVal(JVal(doc)[field])
         ELSE <<JVal(doc)[field]>>

\* the occurrences, as (hit, position) pairs, of a string form in a field
Occurrences(hits, field, str) ==
    {p \in UNION {{<<i, j>> : j \in DOMAIN ContributedValues(hits[i], field)} :
                    i \in DOMAIN hits} :
        StringForm(ContributedValues(hits[p[1]], field)[p[2]]) = str}

StringFormsOf(hits, field) ==
    UNION {{StringForm(ContributedValues(hits[i], field)[j]) :
                j \in DOMAIN ContributedValues(hits[i], field)} : i \in DOMAIN hits}

\* C8: for every requested field and every string form of a value, the count
\* is the number of occurrences of that value in that field over the hits
\* whose content parses (one per array element, one for a scalar); a
\* requested field without any occurrence is absent from the result, never
\* present with an empty map, and no field that was not requested appears.
C8_FacetCounts ==
    IsSome(facets_out) =>
        LET out == Unwrap(facets_out)
            hits == results.hits
            requested == Range(query.facets)
        IN /\ DOMAIN out \subseteq requested
           /\ \A f \in DOMAIN out : DOMAIN out[f] /= {}
           /\ \A f \in requested :
                 /\ f \in DOMAIN out <=> StringFormsOf(hits, f) /= {}
                 /\ f \in DOMAIN out =>
                       /\ DOMAIN out[f] = StringFormsOf(hits, f)
                       /\ \A str \in DOMAIN out[f] :
                             out[f][str] = Cardinality(Occurrences(hits, f, str))

C8_Witness ==
    /\ IsSome(facets_out)
    /\ query.facets = <<"category", "brand">>
    /\ "category" \in DOMAIN Unwrap(facets_out)
    /\ TextBooks \in DOMAIN Unwrap(facets_out)["category"]
    /\ Unwrap(facets_out)["category"][TextBooks] = 3
    /\ "brand" \notin DOMAIN Unwrap(facets_out)

(***************************************************************************)
(* Properties of the functions called on their own (SpecFn)                *)
(***************************************************************************)
HasReturned(fn) == args.fn = fn /\ IsSome(output)

\* C13: is_available is false for Unsupported and true for every other
\* variant; is_native is true only for Native; needs_fallback is true only
\* for Limited and Emulated.
C13_FeatureSupportPredicates ==
    HasReturned("FeatureSupport") =>
        LET s == args.self
            o == Unwrap(output) IN
        /\ o.is_available <=> (s /= "Unsupported")
        /\ o.is_native <=> (s = "Native")
        /\ o.needs_fallback <=> (s = "Limited" \/ s = "Emulated")

C13_Witness ==
    /\ HasReturned("FeatureSupport")
    /\ args.self = "Unsupported"
    /\ ~Unwrap(output).is_available
    /\ ~Unwrap(output).needs_fallback

\* term occurs in text, letter case ignored
Occurs(text, term) ==
    \E k \in 1..(Len(text) - Len(term) + 1) :
        ToLowercase(SubSeq(text, k, k + Len(term) - 1)) = term

\* pat is a substring of s
Contains(s, pat) ==
    \E k \in 1..(Len(s) - Len(pat) + 1) : SubSeq(s, k, k + Len(pat) - 1) = pat

\* the snippet wraps an occurrence of term, written as in text, in the tags
WrapsTerm(snippet, text, term) ==
    \E k \in 1..(Len(text) - Len(term) + 1) :
        LET source == SubSeq(text, k, k + Len(term) - 1) IN
        /\ ToLowercase(source) = term
        /\ Contains(snippet, args.pre_tag \o source \o args.post_tag)

\* C16: for every search term that occurs (case-insensitively) in the text,
\* highlight_text returns at least one snippet in which that term is wrapped
\* in pre_tag/post_tag, with the casing of the source text.
C16_EveryFoundTermHighlighted ==
    HasReturned("highlight_text") =>
        LET o == Unwrap(output) IN
        /\ ~o.panic
        /\ \A i \in DOMAIN args.search_terms :
              Occurs(args.text, args.search_terms[i])
                 => \E j \in DOMAIN o.snippets :
                       WrapsTerm(o.snippets[j], args.text, args.search_terms[i])

\* C17: the snippet list highlight_text returns has at most 3 entries, is in
\* ascending order with no two equal snippets, and has at most one snippet
\* per search term found in the text.
C17_SnippetList ==
    (HasReturned("highlight_text") /\ ~Unwrap(output).panic) =>
        LET snippets == Unwrap(output).snippets
            found == {i \in DOMAIN args.search_terms :
                        Occurs(args.text, args.search_terms[i])}
        IN /\ Len(snippets) <= 3
           /\ \A j \in 1..(Len(snippets) - 1) : StrLess(snippets[j], snippets[j + 1])
           /\ \A j, k \in DOMAIN snippets : j /= k => snippets[j] /= snippets[k]
           /\ Len(snippets) <= Cardinality(found)

C17_Witness ==
    /\ HasReturned("highlight_text")
    /\ args.text = TextExample
    /\ Len(args.search_terms) = 4
    /\ Cardinality(Range(args.search_terms)) = 4
    /\ IsNone(args.max_length)
    /\ ~Unwrap(output).panic
    /\ Len(Unwrap(output).snippets) = 3


\* what paginate_query has returned, against the call's arguments
PaginatedAsStated ==
    HasReturned("paginate_query") =>
        LET self == args.self
            queries == Unwrap(output)
            count == IF IsSome(self.max_pages) THEN Unwrap(self.max_pages) ELSE 10
        IN /\ Len(queries) = count
           /\ \A i \in 0..(count - 1) :
                 /\ queries[i + 1].page = Some(i)
                 /\ queries[i + 1].per_page = Some(self.page_size)
                 /\ DOMAIN queries[i + 1] = DOMAIN args.query
                 /\ \A f \in DOMAIN args.query \ {"page", "per_page"} :
                       queries[i + 1][f] = args.query[f]
\* C18: paginate_query returns max_pages queries, 10 when max_pages is
\* absent and none when it is 0; the i-th query (from 0) has page = i and
\* per_page = page_size and equals the input in every other field; the input
\* query is not modified.
C18_PaginateQuery == [](PaginatedAsStated) /\ [][args' = args]_vars
C18_Witness ==
    /\ HasReturned("paginate_query")
    /\ Len(Unwrap(output)) = MaxPages
    /\ args.query.page = Some(7)
    /\ args.self.page_size /= 9

\* C19: combine_results of a non-empty list has the hits of all pages in page
\* order, took_ms the sum of the pages' took_ms (absent counted as 0), total
\* and facets of the first page, page = 0 and per_page = the number of
\* combined hits; for an empty list it has no hits, total 0, took_ms 0,
\* page 0, no facets and per_page = page_size.
C19_CombineResults ==
    HasReturned("combine_results") =>
        LET pages == args.page_results
            hits[i \in 0..Len(pages)] ==
                IF i = 0 THEN <<>> ELSE hits[i - 1] \o pages[i].hits
            \* the sum of the high and of the low halves of the took_ms values
            halves[i \in 0..Len(pages)] ==
                IF i = 0 THEN <<0, 0>>
                ELSE IF IsNone(pages[i].took_ms) THEN halves[i - 1]
                ELSE <<halves[i - 1][1] + Unwrap(pages[i].took_ms)[1],
                       halves[i - 1][2] + Unwrap(pages[i].took_ms)[2]>>
            sum == <<halves[Len(pages)][1] + (halves[Len(pages)][2] \div 65536),
                     halves[Len(pages)][2] % 65536>>
        IN /\ Unwrap(output).ret = "Ok"
           /\ Unwrap(output).value =
                 Some(IF pages = <<>>
                      THEN [total |-> Some(0), page |-> Some(0),
                            per_page |-> Some(args.self.page_size), hits |-> <<>>,
                            facets |-> None, took_ms |-> Some(<<0, 0>>)]
                      ELSE [total |-> pages[1].total, page |-> Some(0),
                            per_page |-> Some(Len(hits[Len(pages)])),
                            hits |-> hits[Len(pages)], facets |-> pages[1].facets,
                            took_ms |-> Some(sum)])

\* C20: the estimate is the maximum, over Low < Medium < High, of the
\* contributions of the listed features (faceted_search: Low up to 3 facets,
\* Medium for 4 to 10, High above 10; highlighting Low; streaming_search
\* Medium; vector_search High; any other name Medium), Low for an empty
\* list; it depends neither on the order nor on repetitions of the list, and
\* adding a feature never lowers it.
C20_EstimateIsMaximum ==
    HasReturned("estimate_fallback_performance_impact") =>
        LET q == args.query
            features == args.unsupported_features
            Rank(impact) == CASE impact = "Low" -> 0
                              [] impact = "Medium" -> 1
                              [] impact = "High" -> 2
            Stated(feature) ==
                CASE feature = "faceted_search" ->
                        IF Len(q.facets) <= 3 THEN 0
                        ELSE IF Len(q.facets) <= 10 THEN 1 ELSE 2
                  [] feature = "highlighting" -> 0
                  [] feature = "streaming_search" -> 1
                  [] feature = "vector_search" -> 2
                  [] OTHER -> 1
            ranks == {0} \cup {Stated(features[i]) : i \in DOMAIN features}
        IN /\ Rank(Unwrap(output)) \in ranks
           /\ \A r \in ranks : r <= Rank(Unwrap(output))
           /\ \A other \in SeqsUpTo(Range(features), MaxFeatures) :
                 Range(other) = Range(features) =>
                    estimate_fallback_performance_impact(q, other) = Unwrap(output)
           /\ \A feature \in FeatureNames :
                 /\ Rank(estimate_fallback_performance_impact(q, Append(features, feature)))
                       >= Rank(Unwrap(output))
                 /\ Rank(estimate_fallback_performance_impact(q, <<feature>> \o features))
                       >= Rank(Unwrap(output))
C20_Witness ==
    /\ HasReturned("estimate_fallback_performance_impact")
    /\ args.unsupported_features = <<"vector_search", "faceted_search", "highlighting">>
    /\ Len(args.query.facets) = 4
    /\ Unwrap(output) = "High"

\* C22: supports_feature(name) is, for each of the 7 core and the 10 advanced
\* feature names, the value of the field of that name in the provider's
\* capability matrix; for any other name it is the provider_specific entry of
\* the matrix when there is one, and Unsupported otherwise.
C22_SupportsFeature ==
    HasReturned("supports_feature") =>
        LET m == args.self.capability_matrix
            name == args.feature
        IN /\ Cardinality(DOMAIN m.core_capabilities) = 7
           /\ Cardinality(DOMAIN m.advanced_features) = 10
           /\ Unwrap(output) =
                 IF name \in DOMAIN m.core_capabilities THEN m.core_capabilities[name]
                 ELSE IF name \in DOMAIN m.advanced_features THEN m.advanced_features[name]
                 ELSE IF name \in DOMAIN m.provider_specific THEN m.provider_specific[name]
                 ELSE "Unsupported"
C22_Witness ==
    /\ HasReturned("supports_feature")
    /\ args.feature = "machine_learning"
    /\ Unwrap(output) = "Conditional"

\* C24: every matrix constructor returns a matrix named after its provider
\* whose core and advanced fields are FeatureSupport values; vector_search is
\* Conditional for ElasticSearch and Native for OpenSearch, streaming_search
\* is Unsupported for Typesense; the OpenSearch matrix is the ElasticSearch
\* matrix except for provider_name, vector_search and the two added
\* provider-specific entries neural_search and anomaly_detection.
C24_ProviderMatrices ==
    HasReturned("capability_matrix") =>
        LET m == Unwrap(output)
            es == elasticsearch_capability_matrix
            added == {"neural_search", "anomaly_detection"}
        IN /\ m.provider_name = args.provider
           /\ \A f \in DOMAIN m.core_capabilities : m.core_capabilities[f] \in FeatureSupport
           /\ \A f \in DOMAIN m.advanced_features : m.advanced_features[f] \in FeatureSupport
           /\ args.provider = "elasticsearch" =>
                 m.advanced_features.vector_search = "Conditional"
           /\ args.provider = "typesense" =>
                 m.advanced_features.streaming_search = "Unsupported"
           /\ args.provider = "opensearch" =>
                 /\ m.advanced_features.vector_search = "Native"
                 /\ DOMAIN m.provider_specific = DOMAIN es.provider_specific \cup added
                 /\ added \cap DOMAIN es.provider_specific = {}
                 /\ [m EXCEPT !.provider_name = es.provider_name,
                              !.advanced_features.vector_search =
                                  es.advanced_features.vector_search,
                              !.provider_specific =
                                  [k \in DOMAIN es.provider_specific |->
                                      m.provider_specific[k]]] = es
C24_Witness ==
    /\ HasReturned("capability_matrix")
    /\ args.provider = "opensearch"
    /\ Unwrap(output).provider_specific["neural_search"] = "Native"
    /\ Unwrap(output).performance_limits = elasticsearch_capability_matrix.performance_limits

(***************************************************************************)
(* Properties of retry_with_backoff (SpecRetry)                            *)
(***************************************************************************)
\* the result of an invocation after which the operation is invoked again
Retried(o) == o[1] = "Err" /\ o[2][1] \notin {"InvalidQuery", "Unsupported"}

\* C25: the operation is invoked at most max_attempts times; the first Ok is
\* returned and the operation not invoked again; an InvalidQuery or
\* Unsupported error is returned unchanged and not retried; any other error is
\* retried until max_attempts invocations have been made, and the error of
\* the last one is then returned.
C25_RetryPolicy ==
    LET outcomes == retry.outcomes
        n == Len(outcomes)
    IN /\ n <= retry.config.max_attempts
       /\ \A i \in 1..(n - 1) : Retried(outcomes[i])
       /\ (n > 0 /\ ~Retried(outcomes[n])) =>
             /\ retry.pc = "returned"
             /\ retry.result = Some(outcomes[n])
       /\ (n > 0 /\ Retried(outcomes[n]) /\ retry.pc = "returned") =>
             /\ n = retry.config.max_attempts
             /\ retry.result = Some(outcomes[n])
       /\ (n = 0 /\ retry.pc = "returned") => retry.config.max_attempts = 0
C25_Witness ==
    /\ retry.pc = "returned"
    /\ Len(retry.outcomes) = 3
    /\ retry.outcomes[1] = <<"Err", <<"Timeout", "">>>>
    /\ retry.outcomes[2] = <<"Err", <<"Internal", "refused">>>>
    /\ retry.result = Some(<<"Err", <<"InvalidQuery", "empty">>>>)

\* C26: every delay slept is at most max_delay_ms; with backoff_multiplier
\* >= 1 the delays slept do not decrease; and no delay is slept after the
\* last attempt.
C26_DelaysBounded ==
    LET config == retry.config
        slept == retry.slept
    IN /\ \A i \in DOMAIN slept : slept[i] <= config.max_delay_ms
       /\ config.backoff_multiplier.num >= config.backoff_multiplier.den =>
             \A i \in 1..(Len(slept) - 1) : slept[i] <= slept[i + 1]
       /\ Len(slept) <= Len(retry.outcomes)
       /\ retry.pc = "returned" => Len(slept) < Len(retry.outcomes) \/ slept = <<>>
       /\ Len(slept) < config.max_attempts \/ slept = <<>>

(***************************************************************************)
(* Properties of SearchHitStream (SpecStream)                              *)
(***************************************************************************)
RECURSIVE Delivered(_, _)
\* the hits of the batches returned from call i on
Delivered(returned, i) ==
    IF i > Len(returned) THEN <<>>
    ELSE (IF IsSome(returned[i].result) THEN Unwrap(returned[i].result) ELSE <<>>)
             \o Delivered(returned, i + 1)

\* every batch returned has at most size hits
BatchesWithinSize ==
    \A i \in DOMAIN stream.returned :
        IsSome(stream.returned[i].result) =>
            Len(Unwrap(stream.returned[i].result)) <= stream.returned[i].size

\* the hits delivered so far are in the order they were sent, none twice
DeliveredInOrder ==
    LET hits == Delivered(stream.returned, 1) \o stream.consumer.batch
    IN /\ \A i \in DOMAIN hits : hits[i] \in 1..stream.sent
       /\ \A i \in 1..(Len(hits) - 1) : hits[i] < hits[i + 1]

\* a call made on a finished stream returned None
NoneOnceFinished ==
    \A i \in DOMAIN stream.returned :
        stream.returned[i].finished_before => stream.returned[i].result = None

\* recv answering None or an error finishes the stream and the call returns
\* the hits it has collected; nothing else finishes the stream
FinishesAsStated ==
    LET c == stream.consumer
        ended == /\ c.pc = "recv"
                 /\ stream'.consumer.pc = "idle"
                 /\ stream.channel = <<>> \/ Head(stream.channel)[1] = "Err"
    IN /\ ended =>
             /\ stream'.finished
             /\ stream'.returned[Len(stream'.returned)].result =
                    (IF c.batch = <<>> THEN None ELSE Some(c.batch))
       /\ (stream'.finished /\ ~stream.finished) => ended

\* page a is before page b
PageBefore(a, b) == a[1] < b[1] \/ (a[1] = b[1] /\ a[2] < b[2])

\* each page fetched is after the one fetched before it
PagesIncreasing ==
    \A i \in 1..(Len(stream.fetched) - 1) :
        PageBefore(stream.fetched[i].page, stream.fetched[i + 1].page)

\* nothing is fetched after a page with fewer than per_page hits or an error
StopsAfterShortPage ==
    \A i \in 1..(Len(stream.fetched) - 1) :
        /\ stream.fetched[i].hits >= 0
        /\ ~(stream.fetched[i].hits < stream.producer.per_page)

\* C29: next_batch(size) returns at most size hits, in the order the
\* producer sent them and each at most once; recv answering None or an error
\* finishes the stream, the hits collected in the current batch are still
\* returned, and every later call returns None; from_paginated fetches
\* pages in increasing page order and fetches nothing after the first page
\* with fewer than per_page hits or the first fetch error.
C29_StreamAsStated ==
    /\ [](BatchesWithinSize /\ DeliveredInOrder /\ NoneOnceFinished)
    /\ [][FinishesAsStated]_vars
    /\ [](PagesIncreasing /\ StopsAfterShortPage)

(***************************************************************************)
(* Properties of RateLimiter (SpecLimiter)                                 *)
(***************************************************************************)
\* the mutex a thread is blocked on, "" when it is not blocked
WaitsFor(t) ==
    CASE limiter.threads[t].pc = "lock_last_refill" -> "last_refill"
      [] limiter.threads[t].pc \in {"refill_lock_permits", "lock_permits"} -> "permits"
      [] OTHER -> ""

PermitsInRange == limiter.permits \in 0..limiter.max_permits

GrantedWithinRefill == limiter.granted <= limiter.at_refill

\* last_refill is only requested by a thread that holds nothing, and the
\* holder of a mutex another thread is blocked on is not blocked itself
LocksOrdered ==
    /\ \A t \in Threads :
          WaitsFor(t) = "last_refill" => \A m \in DOMAIN limiter.lock : limiter.lock[m] /= t
    /\ \A t \in Threads :
          limiter.lock["permits"] = t => WaitsFor(t) = ""
    /\ \A t \in Threads :
          (WaitsFor(t) /= "" /\ limiter.lock[WaitsFor(t)] /= 0)
              => WaitsFor(limiter.lock[WaitsFor(t)]) /= "last_refill"

\* a step in which try_acquire returns: true exactly when a permit was there
\* under the permits lock, and then exactly one permit is consumed
ReturnsAsStated ==
    \A t \in Threads :
        (limiter.threads[t].pc = "take" /\ limiter'.threads[t].pc = "idle") =>
            /\ limiter'.threads[t].result = Some(limiter.permits > 0)
            /\ limiter'.permits = limiter.permits - (IF limiter.permits > 0 THEN 1 ELSE 0)

\* C30: the permit count stays within 0..=max_permits; try_acquire returns
\* true exactly when a permit is available after its refill step and then
\* consumes exactly one; between two refills no more acquisitions succeed
\* than permits were available at the first; the locks on last_refill and
\* permits are never taken in an order that can deadlock.
C30_RateLimiter ==
    /\ [](PermitsInRange /\ GrantedWithinRefill /\ LocksOrdered)
    /\ [][ReturnsAsStated]_vars

\* after a refill one thread was granted a permit and another was refused,
\* while a thread held last_refill and waited for permits
C30_Witness ==
    /\ limiter /= None
    /\ limiter.refilled
    /\ \E t, u \in Threads :
          /\ limiter.threads[t].pc = "idle" /\ limiter.threads[t].result = Some(TRUE)
          /\ limiter.threads[u].pc = "idle" /\ limiter.threads[u].result = Some(FALSE)
    /\ limiter.granted = limiter.at_refill

====
